---- MODULE Spec2Model ----
(***************************************************************************)
(* The `download` command of scripts/download_papers.py: the manifest, the *)
(* ordered phases, the retry resets and the coupling of the Scholar and    *)
(* CORE phases to the VPN rotation of src/vpn.py.                          *)
(*                                                                         *)
(* One step of the model is one iteration of a phase loop (adapter call,   *)
(* rotation, download, update_entry, save_manifest and the sleeps), or the *)
(* code between two loops.  The process can be killed between two steps.   *)
(***************************************************************************)
EXTENDS Integers, Sequences, FiniteSets, TLC

(* ------------------------------ bounds -------------------------------- *)

\* Number of failed/not_found entries the CORE specification starts from.
NumCorePapers == 6

\* Largest number of alternative URLs get_transform_urls returns for a URL.
MaxAlts == 2

\* vpn.rotate_every_n_papers as configured in the modelled runs.
RotateEveryN == 2

(* ------------------------- program constants -------------------------- *)

\* config.get("max_rotation_failures", 3)
MaxFailures == 3

\* `elif consecutive_rate_limits >= 5`
CoreAbortStreak == 5

\* scholar_settings.get("delay_seconds", 10.0), in seconds
DefaultScholarDelay == 10

\* scholar_settings.get("delay_after_rotation", 3.0), in seconds
DelayAfterRotation == 3

\* `current_delay + 1.0`
DelayIncrement == 1

(* ------------------------------- state -------------------------------- *)

VARIABLES
    pc,         \* position of the process
    flags,      \* the command-line flags and the settings of the current run
    papers,     \* ids of the papers of the dataset loaded by the current run
    manifest,   \* the in-memory manifest: paper id -> entry
    disk,       \* the manifest file
    todo,       \* the candidates of the current loop still to be visited
    completed,  \* scholar_completed / core_completed
    streak,     \* consecutive_rate_limits of the CORE loop
    vpn,        \* the VPNSwitcher of the run
    phaseLog,   \* the phases entered by the current run, in order
    lastReq,    \* the network requests and the VPNSwitcher calls of the last
                \* step, in order
    scholarDelay,  \* scholar_delay: the steady-state delay of the run
    currentDelay,  \* current_delay of the Google Scholar loop
    rlRun,      \* history: the consecutive CORE candidates, up to the last
                \* one, whose lookup ended with the rate-limited signal
    call        \* a function called on its own: its arguments, its progress
                \* and what it has done so far

vars == <<pc, flags, papers, manifest, disk, todo, completed, streak, vpn,
          phaseLog, lastReq, scholarDelay, currentDelay, rlRun, call>>

NoManifest == [p \in {} |-> 0]

PdfPath == "data/pdfs/id.pdf"

\* A keyword argument that a call of update_entry leaves out.
Omitted == "<omitted>"

Titles == {"t"}

FlagNames == {"open_access_only", "scholar_only", "repos_only", "use_vpn",
              "use_proxy_institutional", "use_scihub", "retry_failed",
              "retry_not_found", "skip_unpaywall", "email", "proxy_base"}

AllFlags == [FlagNames -> BOOLEAN]

NoFlags == [n \in FlagNames |-> FALSE]

\* No function is being called on its own.
NoCall == [fn |-> "none", done |-> TRUE]

\* `vpn = None`; otherwise a VPNSwitcher: whether the VPN is connected,
\* _consecutive_failures and rotate_every_n.
NoVpn == [present |-> FALSE, connected |-> FALSE, failures |-> 0, every |-> 1]

(* ------------------------------ helpers ------------------------------- *)

Min(a, b) == IF a < b THEN a ELSE b

RECURSIVE SortedSeq(_)
\* The ids of S in the iteration order of the manifest dict.
SortedSeq(S) ==
    IF S = {} THEN <<>>
    ELSE LET m == CHOOSE x \in S : \A y \in S : x <= y
         IN  <<m>> \o SortedSeq(S \ {m})

Range(s) == {s[i] : i \in 1..Len(s)}

\* A network request for paper pid: its kind ("doi_lookup", "lookup",
\* "download"), the source asked, the result, and the status of the paper in
\* memory and in the manifest file when it is issued.
Req(kind, src, pid, res) ==
    [kind |-> kind, src |-> src, pid |-> pid, res |-> res,
     st  |-> manifest[pid].status,
     dst |-> IF pid \in DOMAIN disk THEN disk[pid].status ELSE "absent"]

\* A call of a VPNSwitcher method (kind "is_available", "get_status",
\* "rotate") by the code of phase src, and its result.
VpnOp(kind, src, res) ==
    [kind |-> kind, src |-> src, pid |-> 0, res |-> res, st |-> "", dst |-> ""]

RotateOp(src, ok) == VpnOp("rotate", src, IF ok THEN "ok" ELSE "fail")

(* ------------------------- src/manifest.py ---------------------------- *)

NewEntry(doi, title) ==
    [status |-> "pending", doi |-> doi, source |-> "", url |-> "",
     file_path |-> "", title |-> title]

\* InitManifest rebuilding the entry of every dataset paper.
InitManifest_Rebuilt(ids, seed, m) ==
    [p \in (DOMAIN m) \cup ids |-> IF p \in ids THEN seed[p] ELSE m[p]]

\* init_manifest(papers, manifest): seed[p] is the snapshot of paper p.
InitManifest(ids, seed, m) ==
    [p \in (DOMAIN m) \cup ids |-> IF p \in DOMAIN m THEN m[p] ELSE seed[p]]

\* update_entry(manifest, paper_id, status, source, url?, file_path?)
UpdateEntry(m, pid, status, source, url, file_path) ==
    [m EXCEPT ![pid] =
        [@ EXCEPT !.status = status,
                  !.source = source,
                  !.url = IF url = Omitted THEN @ ELSE url,
                  !.file_path = IF file_path = Omitted THEN @ ELSE file_path]]

GetByStatus(m, status) == {p \in DOMAIN m : m[p].status = status}

GetPending(m) == GetByStatus(m, "pending")

\* get_papers_with_doi(manifest, statuses)
GetPapersWithDoi(m, statuses) ==
    {p \in DOMAIN m : m[p].status \in statuses /\ m[p].doi # ""}

(* --------------------------- src/vpn.py ------------------------------- *)

HasFailedPermanently(v) == v.failures >= MaxFailures

\* ShouldRotateProactively without `papers_completed > 0`.
ShouldRotateProactively_AtZero(v, n) == n % v.every = 0

ShouldRotateProactively(v, n) == n > 0 /\ n % v.every = 0

\* rotate(): ok is the result of _connect, disc that of _disconnect.
Rotate(v, ok, disc) ==
    IF ok THEN [v EXCEPT !.failures = 0, !.connected = TRUE]
    ELSE [v EXCEPT !.failures = @ + 1, !.connected = @ /\ ~disc]

\* The guard without has_failed_permanently().
VpnUsable_IgnoresFailures(v) == v.present

\* `if vpn and not vpn.has_failed_permanently()`
VpnUsable(v) == v.present /\ ~HasFailedPermanently(v)

\* RetryAfterRotation without the `if vpn.rotate():` around the second call
\* of the adapter.
RetryAfterRotation_Always(react, ok) == react

\* The adapter is called a second time for the paper: the reactive
\* rotation was made (react) and rotate() returned True (ok).
RetryAfterRotation(react, ok) == react /\ ok

(* ---------------- scripts/download_papers.py: filters ----------------- *)

\* RetryReset looping over the whole manifest instead of the ids selected
\* by status.
RetryReset_All(m, status) ==
    [p \in DOMAIN m |-> [m[p] EXCEPT !.status = "pending"]]

\* `for pid in failed_ids: manifest[pid]["status"] = "pending"`
RetryReset(m, status) ==
    [p \in DOMAIN m |->
        IF p \in GetByStatus(m, status) THEN [m[p] EXCEPT !.status = "pending"]
        ELSE m[p]]

\* ApplyRetries without the `if retry_failed:` and `if retry_not_found:`.
ApplyRetries_Unasked(m, f) == RetryReset(RetryReset(m, "failed"), "not_found")

\* The retry resets of a run with flags f, in the order of the code.
ApplyRetries(m, f) ==
    LET m1 == IF f.retry_failed THEN RetryReset(m, "failed") ELSE m
    IN  IF f.retry_not_found THEN RetryReset(m1, "not_found") ELSE m1

\* EnrichLocal without `not manifest[pid].get("doi")`.
EnrichLocal_NoGuard(m, local) ==
    [p \in DOMAIN m |->
        IF p \in DOMAIN local /\ local[p] # ""
        THEN [m[p] EXCEPT !.doi = local[p]] ELSE m[p]]

\* enrich_dois, metadata part: local[p] is the DOI extracted for p, or "".
EnrichLocal(m, local) ==
    [p \in DOMAIN m |->
        IF p \in DOMAIN local /\ local[p] # "" /\ m[p].doi = ""
        THEN [m[p] EXCEPT !.doi = local[p]] ELSE m[p]]

\* `missing_doi_ids = [pid for pid in manifest if not manifest[pid].get("doi")]`
MissingDoiIds(m) == {p \in DOMAIN m : m[p].doi = ""}

\* enrich_dois, batch part: api[p] is the DOI the batch API returned, or "".
EnrichApi(m, asked, api) ==
    [p \in DOMAIN m |->
        IF p \in asked /\ api[p] # "" /\ m[p].doi = ""
        THEN [m[p] EXCEPT !.doi = api[p]] ELSE m[p]]

\* PendingOa without the filter on status "pending".
PendingOa_NoFilter(m, oa) == {p \in oa : p \in DOMAIN m}

\* pending_oa: oa is the set of dataset papers with an open-access URL.
PendingOa(m, oa) == {p \in oa : p \in DOMAIN m /\ m[p].status = "pending"}

UnpaywallCandidates(m) == GetPapersWithDoi(m, {"pending"})

\* run_url_transform_phase: T holds the ids whose URL has a transform.
TransformCandidates(m, T) ==
    {p \in DOMAIN m : m[p].status = "failed" /\ m[p].url # "" /\ p \in T}

\* RepoCandidates taking the failed entries only.
RepoCandidates_FailedOnly(m) == GetByStatus(m, "failed")

\* Lines 206, 281 and 310 of run_repo_api_phase.
RepoCandidates(m) == {p \in DOMAIN m : m[p].status \in {"failed", "not_found"}}

CrossrefCandidates(m) == GetPapersWithDoi(m, {"failed", "not_found"})

ScihubCandidates(m) == GetPapersWithDoi(m, {"failed", "not_found"})

\* ProxyCandidates without `if not url: ... else: continue`.
ProxyCandidates_NoUrlNeeded(m, X) ==
    {p \in DOMAIN m : m[p].status \in {"failed", "not_found"} /\ p \in X}

\* get_proxy_candidates: X holds the ids whose URL rewrite_url accepts.
ProxyCandidates(m, X) ==
    {p \in DOMAIN m : /\ m[p].status \in {"failed", "not_found"}
                      /\ (m[p].url # "" \/ m[p].doi # "")
                      /\ p \in X}

(* ------------- scripts/download_papers.py: phase guards --------------- *)

OpenAccessEnabled(f) == ~f.scholar_only

UnpaywallEnabled(f) == ~f.open_access_only /\ ~f.skip_unpaywall

TransformEnabled(f) == ~f.scholar_only /\ ~f.open_access_only

ScholarEnabled(f) == ~f.open_access_only

RepoEnabled(f) == ~f.open_access_only /\ ~f.scholar_only

CrossrefEnabled(f) == ~f.open_access_only /\ ~f.scholar_only

ProxyEnabled(f) == f.use_proxy_institutional

\* ScihubEnabled with the guard of the phases before it.
ScihubEnabled_UnlessModes(f) == ~f.open_access_only /\ ~f.scholar_only

ScihubEnabled(f) == f.use_scihub

(* ----------------------- outcomes of the network ---------------------- *)

\* download_pdf: True, False, or an exception it does not catch (the
\* OSError of output_path.write_bytes / mkdir).
DlResults == {"ok", "fail", "raise"}

\* An adapter without a rate-limit signal: a URL or None.
PlainResults == {"url", "none"}

\* Scholar and CORE: (url, False), (None, False) or (None, True).
SignalResults == {"url", "none", "rl"}

(* ------------------------------- Init --------------------------------- *)

Init ==
    /\ pc = "idle"
    /\ flags = NoFlags
    /\ papers = {}
    /\ manifest = NoManifest
    /\ disk = NoManifest
    /\ todo = <<>>
    /\ completed = 0
    /\ streak = 0
    /\ vpn = NoVpn
    /\ phaseLog = <<>>
    /\ lastReq = <<>>
    /\ scholarDelay = 0
    /\ currentDelay = 0
    /\ rlRun = 0
    /\ call = NoCall

Stopped == pc \in {"idle", "killed", "error", "vpn_error", "done"}

\* The process is gone: nothing of it is left but the manifest file.
ProcessGone ==
    /\ flags' = NoFlags
    /\ papers' = {}
    /\ manifest' = NoManifest
    /\ todo' = <<>>
    /\ completed' = 0
    /\ streak' = 0
    /\ vpn' = NoVpn
    /\ phaseLog' = <<>>
    /\ scholarDelay' = 0
    /\ currentDelay' = 0
    /\ rlRun' = 0
    /\ UNCHANGED call
    /\ UNCHANGED disk

\* An exception leaves the step after it issued reqs: traceback, exit.
Abend(reqs) ==
    /\ pc' = "error"
    /\ lastReq' = reqs
    /\ ProcessGone

\* The process is killed between two steps.
Kill ==
    /\ ~Stopped
    /\ pc' = "killed"
    /\ lastReq' = <<>>
    /\ ProcessGone

(* ------------------------ download(): the prelude --------------------- *)

\* Lines 510-532: the VPNSwitcher of a run with --use-vpn; exit: the CLI is
\* missing or the initial rotate() failed, and the command exits; ops: the
\* VPNSwitcher calls made.
VpnAtStart(avail, conn, ok, disc) ==
    LET v0 == [present |-> TRUE, connected |-> conn, failures |-> 0,
               every |-> RotateEveryN]
        asked == VpnOp("is_available", "startup", IF avail THEN "yes" ELSE "no")
        status == VpnOp("get_status", "startup",
                        IF conn THEN "connected" ELSE "disconnected")
    IN  IF ~avail THEN [exit |-> TRUE, v |-> NoVpn, ops |-> <<asked>>]
        ELSE IF conn THEN [exit |-> FALSE, v |-> v0, ops |-> <<asked, status>>]
        ELSE IF ok
        THEN [exit |-> FALSE, v |-> Rotate(v0, ok, disc),
              ops |-> <<asked, status, RotateOp("startup", TRUE), status>>]
        ELSE [exit |-> TRUE, v |-> NoVpn,
              ops |-> <<asked, status, RotateOp("startup", FALSE)>>]

\* VpnStarts with the `if use_vpn:` of line 511 left out.
VpnStarts_Always(f) ==
    {VpnAtStart(avail, conn, ok, disc) :
        avail \in BOOLEAN, conn \in BOOLEAN, ok \in BOOLEAN, disc \in BOOLEAN}

VpnStarts(f) ==
    IF f.use_vpn
    THEN {VpnAtStart(avail, conn, ok, disc) :
             avail \in BOOLEAN, conn \in BOOLEAN, ok \in BOOLEAN, disc \in BOOLEAN}
    ELSE {[exit |-> FALSE, v |-> NoVpn, ops |-> <<>>]}

\* Lines 495-565: VPN set-up, load_papers, load_manifest, init_manifest,
\* save_manifest, the retry resets, and the repos-only shortcut.
\* AfterPrelude without the `if repos_only:` of line 560.
AfterPrelude_NoShortcut(f) == "p0"

\* Lines 559-567: where the run goes after the retry resets.
AfterPrelude(f) == IF f.repos_only THEN "p5" ELSE "p0"

\* F: the flag records, Datasets: the id sets, SeedDois: the DOIs of the
\* paper snapshots, and ScholarDelays: the values of scholar_delay the run
\* may be given.  After sys.exit(1) flags keeps the flags of the command.
StartRun(F, Datasets, SeedDois, ScholarDelays) ==
    /\ Stopped
    /\ \E f \in F :
       \E start \in VpnStarts(f) :
        IF start.exit
        THEN /\ pc' = "vpn_error"
             /\ lastReq' = start.ops
             /\ flags' = f
             /\ papers' = {}
             /\ manifest' = NoManifest
             /\ todo' = <<>>
             /\ completed' = 0
             /\ streak' = 0
             /\ vpn' = NoVpn
             /\ phaseLog' = <<>>
             /\ scholarDelay' = 0
             /\ currentDelay' = 0
             /\ rlRun' = 0
             /\ UNCHANGED call
             /\ UNCHANGED disk
        ELSE \E ids \in Datasets :
             \E sd \in ScholarDelays :
             \E seedDoi \in [ids \ DOMAIN disk -> SeedDois] :
             \E seedTitle \in [ids \ DOMAIN disk -> Titles] :
               LET seed == [p \in ids \ DOMAIN disk |->
                              NewEntry(seedDoi[p], seedTitle[p])]
                   m0 == InitManifest(ids, seed, disk)
                   m1 == ApplyRetries(m0, f)
               IN  /\ flags' = f
                   /\ vpn' = start.v
                   /\ papers' = ids
                   /\ manifest' = m1
                   /\ disk' = m1
                   /\ pc' = AfterPrelude(f)
                   /\ todo' = <<>>
                   /\ completed' = 0
                   /\ streak' = 0
                   /\ phaseLog' = <<>>
                   /\ lastReq' = start.ops
                   /\ scholarDelay' = sd
                   /\ currentDelay' = sd
                   /\ rlRun' = 0
                   /\ UNCHANGED call

(* ------------------------ Phase 0: enrich_dois ------------------------ *)

EnrichOutcome(local, api) ==
    LET m1 == EnrichLocal(manifest, local)
        missing == SortedSeq(MissingDoiIds(m1))
        m2 == EnrichApi(m1, Range(missing), api)
    IN  [m |-> m2,
         reqs |-> [i \in 1..Len(missing) |->
                     Req("doi_lookup", "s2_batch", missing[i], "")]]

\* enrich_dois and the save_manifest after it.  LocalDois, ApiDois: what
\* the metadata and the batch API may hold for a paper.
EnrichDois(LocalDois, ApiDois) ==
    /\ pc = "p0"
    /\ \E o \in {EnrichOutcome(local, api) :
                    local \in [papers -> LocalDois],
                    api \in [DOMAIN manifest -> ApiDois]} :
        /\ manifest' = o.m
        /\ disk' = o.m
        /\ lastReq' = o.reqs
    /\ pc' = "p1"
    /\ UNCHANGED <<flags, papers, todo, completed, streak, vpn, phaseLog,
                   scholarDelay, currentDelay, rlRun, call>>

(* ----------------------- the loops of the phases ---------------------- *)

\* What one iteration leaves: the manifest, whether it was saved, the VPN,
\* the streak, the requests issued, how the iteration ended ("next",
\* "break", or "raise" when an exception left it), and current_delay, which
\* only the Google Scholar loop changes.
Outcome(m, saved, v, s, reqs, end) ==
    [m |-> m, saved |-> saved, v |-> v, s |-> s, reqs |-> reqs, end |-> end,
     d |-> currentDelay]

Raised(reqs) == Outcome(manifest, FALSE, vpn, streak, reqs, "raise")

Lookups(reqs) == SelectSeq(reqs, LAMBDA r : r.kind = "lookup")

\* The last lookup of an iteration returned the rate-limited signal.
EndedRateLimited(reqs) ==
    /\ Lookups(reqs) # <<>>
    /\ Lookups(reqs)[Len(Lookups(reqs))].res = "rl"

\* Iterate leaving the candidate at the head of the list.
Iterate_SameCandidate(o, counts) ==
    IF o.end = "raise" THEN Abend(o.reqs)
    ELSE /\ pc' = IF o.end = "break" THEN "p5a_abort" ELSE pc
         /\ manifest' = o.m
         /\ disk' = IF o.saved THEN o.m ELSE disk
         /\ vpn' = o.v
         /\ streak' = o.s
         /\ todo' = todo
         /\ lastReq' = o.reqs
         /\ completed' = IF counts /\ o.end = "next" THEN completed + 1 ELSE completed
         /\ currentDelay' = o.d
         /\ rlRun' = IF pc # "p5a_loop" THEN rlRun
                      ELSE IF EndedRateLimited(o.reqs) THEN rlRun + 1 ELSE 0
         /\ UNCHANGED call
         /\ UNCHANGED <<flags, papers, phaseLog, scholarDelay>>

\* The iteration of a loop with outcome o; counts: the loop counts the
\* completed papers.  Only the CORE loop has a `break`.
Iterate(o, counts) ==
    IF o.end = "raise" THEN Abend(o.reqs)
    ELSE /\ pc' = IF o.end = "break" THEN "p5a_abort" ELSE pc
         /\ manifest' = o.m
         /\ disk' = IF o.saved THEN o.m ELSE disk
         /\ vpn' = o.v
         /\ streak' = o.s
         /\ todo' = Tail(todo)
         /\ lastReq' = o.reqs
         /\ completed' = IF counts /\ o.end = "next" THEN completed + 1 ELSE completed
         /\ currentDelay' = o.d
         /\ rlRun' = IF pc # "p5a_loop" THEN rlRun
                      ELSE IF EndedRateLimited(o.reqs) THEN rlRun + 1 ELSE 0
         /\ UNCHANGED call
         /\ UNCHANGED <<flags, papers, phaseLog, scholarDelay>>

\* Entering a phase: enabled, its candidates cands, and the positions of
\* its loop and of the phase after it.  The Google Scholar phase starts
\* with `current_delay = scholar_delay`.
Begin(here, enabled, name, cands, loop, next) ==
    /\ pc = here
    /\ IF enabled
       THEN /\ todo' = SortedSeq(cands)
            /\ phaseLog' = Append(phaseLog, name)
            /\ pc' = loop
       ELSE /\ pc' = next
            /\ UNCHANGED <<todo, phaseLog>>
    /\ lastReq' = <<>>
    /\ currentDelay' = IF enabled /\ name = "google_scholar" THEN scholarDelay
                        ELSE currentDelay
    /\ UNCHANGED <<flags, papers, manifest, disk, completed, streak, vpn,
                   scholarDelay, rlRun, call>>

\* The end of a loop; saves: a save_manifest follows the loop.
End(loop, next, saves) ==
    /\ pc = loop
    /\ todo = <<>>
    /\ disk' = IF saves THEN manifest ELSE disk
    /\ pc' = next
    /\ completed' = 0
    /\ lastReq' = <<>>
    /\ UNCHANGED <<flags, papers, manifest, todo, streak, vpn, phaseLog,
                   scholarDelay, currentDelay, rlRun, call>>

(* ------------------------ Phase 1: open access ------------------------ *)

OpenAccessBegin ==
    \E oa \in SUBSET papers :
        Begin("p1", OpenAccessEnabled(flags), "open_access",
              PendingOa(manifest, oa), "p1_loop", "p2")

\* OpenAccessOutcome passing file_path in the failed branch too.
OpenAccessOutcome_KeepsPath(pid, dl) ==
    LET reqs == <<Req("download", "open_access", pid, dl)>>
    IN  IF dl = "raise" THEN Raised(reqs)
        ELSE Outcome(IF dl = "ok"
                     THEN UpdateEntry(manifest, pid, "downloaded", "open_access", "oa", PdfPath)
                     ELSE UpdateEntry(manifest, pid, "failed", "open_access", "oa", PdfPath),
                     TRUE, vpn, streak, reqs, "next")

\* Lines 583-602.
OpenAccessOutcome(pid, dl) ==
    LET reqs == <<Req("download", "open_access", pid, dl)>>
    IN  IF dl = "raise" THEN Raised(reqs)
        ELSE Outcome(IF dl = "ok"
                     THEN UpdateEntry(manifest, pid, "downloaded", "open_access", "oa", PdfPath)
                     ELSE UpdateEntry(manifest, pid, "failed", "open_access", "oa", Omitted),
                     TRUE, vpn, streak, reqs, "next")

OpenAccessStep ==
    /\ pc = "p1_loop"
    /\ todo # <<>>
    /\ \E o \in {OpenAccessOutcome(Head(todo), dl) : dl \in DlResults} :
        Iterate(o, FALSE)

OpenAccessEnd == End("p1_loop", "p2", FALSE)

(* ------------------------- Phase 2: Unpaywall ------------------------- *)

\* UnpaywallBegin without the `if not email: return` of lines 106-108.
UnpaywallBegin_NoEmailCheck ==
    Begin("p2", UnpaywallEnabled(flags), "unpaywall",
          UnpaywallCandidates(manifest), "p2_loop", "p3")

\* run_unpaywall_phase returns before its loop when no email is configured.
UnpaywallBegin ==
    Begin("p2", UnpaywallEnabled(flags), "unpaywall",
          IF flags.email THEN UnpaywallCandidates(manifest) ELSE {},
          "p2_loop", "p3")

\* UnpaywallOutcome marking the paper failed when the download fails, as
\* the open-access and Google Scholar loops do.
UnpaywallOutcome_MarksFailed(pid, r, dl) ==
    LET look == <<Req("lookup", "unpaywall", pid, r)>>
        reqs == IF r = "url" THEN Append(look, Req("download", "unpaywall", pid, dl))
                ELSE look
    IN  IF r = "url" /\ dl = "raise" THEN Raised(reqs)
        ELSE Outcome(IF r = "url" /\ dl = "ok"
                     THEN UpdateEntry(manifest, pid, "downloaded", "unpaywall", "pdf", PdfPath)
                     ELSE IF r = "url"
                     THEN UpdateEntry(manifest, pid, "failed", "unpaywall", "pdf", Omitted)
                     ELSE manifest,
                     FALSE, vpn, streak, reqs, "next")

\* Lines 121-145: no save_manifest in the loop.
UnpaywallOutcome(pid, r, dl) ==
    LET look == <<Req("lookup", "unpaywall", pid, r)>>
        reqs == IF r = "url" THEN Append(look, Req("download", "unpaywall", pid, dl))
                ELSE look
    IN  IF r = "url" /\ dl = "raise" THEN Raised(reqs)
        ELSE Outcome(IF r = "url" /\ dl = "ok"
                     THEN UpdateEntry(manifest, pid, "downloaded", "unpaywall", "pdf", PdfPath)
                     ELSE manifest,
                     FALSE, vpn, streak, reqs, "next")

UnpaywallStep ==
    /\ pc = "p2_loop"
    /\ todo # <<>>
    /\ \E o \in {UnpaywallOutcome(Head(todo), r, dl) :
                    r \in PlainResults, dl \in DlResults} :
        Iterate(o, FALSE)

UnpaywallEnd == End("p2_loop", "p3", TRUE)

(* --------------------- Phases 3 and 6: URL transforms ----------------- *)

\* get_transform_urls(url): the alternatives of a URL, in the order of the
\* list; a candidate has the first n of them.
AltUrls == <<"alt1", "alt2", "alt3", "alt4">>

TransformBegin(here, loop, next, name) ==
    \E T \in SUBSET (DOMAIN manifest) :
        Begin(here, TransformEnabled(flags), name,
              TransformCandidates(manifest, T), loop, next)

\* Lines 167-184, one candidate with n alternatives, of which the k-th is
\* the first whose download succeeds (k = n + 1: none does) or, with
\* last = "raise", raises.  No save_manifest in the loop.
\* The request for the alternative `alt` of the list carries it.
AltReq(pid, res, alt) ==
    [kind |-> "download", src |-> "url_transform", pid |-> pid, res |-> res,
     st |-> Req("download", "url_transform", pid, res).st,
     dst |-> Req("download", "url_transform", pid, res).dst,
     alt |-> alt]

\* TransformOutcome trying every alternative and keeping the last that
\* downloads: the loop without its `break`.
TransformOutcome_NoBreak(pid, n, k, last) ==
    LET reqs == [i \in 1..n |->
                   AltReq(pid, IF i < k THEN "fail" ELSE IF i = k THEN last ELSE "ok",
                          AltUrls[i])]
    IN  IF k <= n /\ last = "raise" THEN Raised(SubSeq(reqs, 1, k))
        ELSE Outcome(IF k <= n
                     THEN UpdateEntry(manifest, pid, "downloaded", "url_transform",
                                      AltUrls[n], PdfPath)
                     ELSE manifest,
                     FALSE, vpn, streak, reqs, "next")

TransformOutcome(pid, n, k, last) ==
    LET tried == Min(k, n)
        reqs == [i \in 1..tried |->
                   AltReq(pid, IF i < k THEN "fail" ELSE last, AltUrls[i])]
    IN  IF k <= n /\ last = "raise" THEN Raised(reqs)
        ELSE Outcome(IF k <= n
                     THEN UpdateEntry(manifest, pid, "downloaded", "url_transform",
                                      AltUrls[k], PdfPath)
                     ELSE manifest,
                     FALSE, vpn, streak, reqs, "next")

TransformStep(loop) ==
    /\ pc = loop
    /\ todo # <<>>
    /\ \E o \in {TransformOutcome(Head(todo), n, k, last) :
                    n \in 1..MaxAlts, k \in 1..(MaxAlts + 1), last \in {"ok", "raise"}} :
        Iterate(o, FALSE)

TransformEnd(loop, next) == End(loop, next, TRUE)

(* ----------------------- Phase 4: Google Scholar ---------------------- *)

ScholarBegin ==
    Begin("p4", ScholarEnabled(flags), "google_scholar", GetPending(manifest),
          "p4_loop", "p5")

\* Lines 640-702: one iteration of the Scholar loop.
ScholarOutcome(pid, ok1, d1, r1, ok2, d2, r2, dl) ==
    LET src == "google_scholar"
        pro == VpnUsable(vpn) /\ ShouldRotateProactively(vpn, completed)
        v1 == IF pro THEN Rotate(vpn, ok1, d1) ELSE vpn
        c1 == IF pro /\ ok1 THEN DelayAfterRotation ELSE currentDelay
        react == r1 = "rl" /\ VpnUsable(v1)
        v2 == IF react THEN Rotate(v1, ok2, d2) ELSE v1
        c2 == IF react /\ ok2 THEN DelayAfterRotation ELSE c1
        retry == RetryAfterRotation(react, ok2)
        a == IF retry THEN r2 ELSE r1
        look == (IF pro THEN <<RotateOp(src, ok1)>> ELSE <<>>)
                \o <<Req("lookup", src, pid, r1)>>
                \o (IF react THEN <<RotateOp(src, ok2)>> ELSE <<>>)
                \o (IF retry THEN <<Req("lookup", src, pid, r2)>> ELSE <<>>)
        reqs == IF a = "url" THEN Append(look, Req("download", src, pid, dl))
                ELSE look
        \* `continue` after a rate-limited paper skips lines 701-702
        c3 == IF a # "rl" /\ c2 < scholarDelay
              THEN Min(c2 + DelayIncrement, scholarDelay) ELSE c2
        o == Outcome(IF a = "rl"
                     THEN UpdateEntry(manifest, pid, "failed", src, Omitted, Omitted)
                     ELSE IF a = "none"
                     THEN UpdateEntry(manifest, pid, "not_found", src, Omitted, Omitted)
                     ELSE IF dl = "ok"
                     THEN UpdateEntry(manifest, pid, "downloaded", src, "pdf", PdfPath)
                     ELSE UpdateEntry(manifest, pid, "failed", src, "pdf", Omitted),
                     TRUE, v2, streak, reqs, "next")
    IN  IF a = "url" /\ dl = "raise" THEN Raised(reqs)
        ELSE [o EXCEPT !.d = c3]

\* ScholarStep leaving a rate-limited paper as it was, for a later run.
ScholarStep_RateLimitedStaysPending ==
    /\ pc = "p4_loop"
    /\ todo # <<>>
    /\ \E o \in {ScholarOutcome(Head(todo), ok1, d1, r1, ok2, d2, r2, dl) :
                    ok1 \in BOOLEAN, d1 \in BOOLEAN, r1 \in SignalResults,
                    ok2 \in BOOLEAN, d2 \in BOOLEAN, r2 \in SignalResults,
                    dl \in DlResults} :
        Iterate(IF o.end = "next" /\ EndedRateLimited(o.reqs)
                THEN [o EXCEPT !.m = manifest]
                ELSE o, TRUE)

\* ScholarStep without the `if was_rate_limited:` block of lines 663-668: a
\* rate-limited paper goes on as one without a URL.
ScholarStep_RateLimitedAsNotFound ==
    /\ pc = "p4_loop"
    /\ todo # <<>>
    /\ \E o \in {ScholarOutcome(Head(todo), ok1, d1, r1, ok2, d2, r2, dl) :
                    ok1 \in BOOLEAN, d1 \in BOOLEAN, r1 \in SignalResults,
                    ok2 \in BOOLEAN, d2 \in BOOLEAN, r2 \in SignalResults,
                    dl \in DlResults} :
        Iterate(IF o.end = "next" /\ EndedRateLimited(o.reqs)
                THEN [o EXCEPT !.m = UpdateEntry(manifest, Head(todo), "not_found",
                                                 "google_scholar", Omitted, Omitted)]
                ELSE o, TRUE)

ScholarStep ==
    /\ pc = "p4_loop"
    /\ todo # <<>>
    /\ \E o \in {ScholarOutcome(Head(todo), ok1, d1, r1, ok2, d2, r2, dl) :
                    ok1 \in BOOLEAN, d1 \in BOOLEAN, r1 \in SignalResults,
                    ok2 \in BOOLEAN, d2 \in BOOLEAN, r2 \in SignalResults,
                    dl \in DlResults} :
        Iterate(o, TRUE)

\* ScholarEnd going on after the repository phase.
ScholarEnd_SkipsRepos == End("p4_loop", "p6", FALSE)

ScholarEnd == End("p4_loop", "p5", FALSE)

(* ---------------- Phase 5: CORE, EuropePMC, arXiv --------------------- *)

\* Entry of run_repo_api_phase up to the CORE loop (lines 189-223): it
\* returns at once when there is no candidate.
RepoBegin ==
    /\ pc = "p5"
    /\ IF flags.repos_only \/ RepoEnabled(flags)
       THEN IF RepoCandidates(manifest) = {}
            THEN /\ phaseLog' = Append(phaseLog, "repo_apis")
                 /\ pc' = "p5_end"
                 /\ UNCHANGED todo
            ELSE /\ phaseLog' = phaseLog \o <<"repo_apis", "core">>
                 /\ todo' = SortedSeq(RepoCandidates(manifest))
                 /\ pc' = "p5a_loop"
       ELSE /\ pc' = "p6"
            /\ UNCHANGED <<todo, phaseLog>>
    /\ completed' = 0
    /\ streak' = 0
    /\ lastReq' = <<>>
    /\ rlRun' = 0
    /\ UNCHANGED call
    /\ UNCHANGED <<flags, papers, manifest, disk, vpn, scholarDelay, currentDelay>>

\* core_api.find_pdf_url and europepmc.find_pdf_url return None at once,
\* without a request, when they have neither a DOI nor a title.
DoiOrTitle(pid) == manifest[pid].doi # "" \/ manifest[pid].title # ""

\* Lines 225-276: one iteration of the CORE loop.
CoreOutcome(pid, ok1, d1, r1, ok2, d2, r2, dl) ==
    LET pro == VpnUsable(vpn) /\ ShouldRotateProactively(vpn, completed)
        v1 == IF pro THEN Rotate(vpn, ok1, d1) ELSE vpn
        s1 == IF pro /\ ok1 THEN 0 ELSE streak
        asks == DoiOrTitle(pid)
        a1 == IF asks THEN r1 ELSE "none"
        s2 == IF a1 = "rl" THEN s1 + 1 ELSE s1
        react == a1 = "rl" /\ VpnUsable(v1)
        v2 == IF react THEN Rotate(v1, ok2, d2) ELSE v1
        retry == RetryAfterRotation(react, ok2)
        brk == a1 = "rl" /\ ~VpnUsable(v1) /\ s2 >= CoreAbortStreak
        a2 == IF retry THEN r2 ELSE a1
        s3 == IF retry THEN 0 ELSE s2
        s4 == IF a2 # "rl" THEN 0 ELSE s3
        look == (IF pro THEN <<RotateOp("core", ok1)>> ELSE <<>>)
                \o (IF asks THEN <<Req("lookup", "core", pid, a1)>> ELSE <<>>)
                \o (IF react THEN <<RotateOp("core", ok2)>> ELSE <<>>)
                \o (IF retry THEN <<Req("lookup", "core", pid, a2)>> ELSE <<>>)
        reqs == IF a2 = "url" THEN Append(look, Req("download", "core", pid, dl))
                ELSE look
        got == a2 = "url" /\ dl = "ok"
    IN  IF brk THEN Outcome(manifest, FALSE, v1, s2, look, "break")
        ELSE IF a2 = "url" /\ dl = "raise" THEN Raised(reqs)
        ELSE Outcome(IF got
                     THEN UpdateEntry(manifest, pid, "downloaded", "core", "pdf", PdfPath)
                     ELSE manifest,
                     got, v2, s4, reqs, "next")

CoreStep ==
    /\ pc = "p5a_loop"
    /\ todo # <<>>
    /\ \E o \in {CoreOutcome(Head(todo), ok1, d1, r1, ok2, d2, r2, dl) :
                    ok1 \in BOOLEAN, d1 \in BOOLEAN, r1 \in SignalResults,
                    ok2 \in BOOLEAN, d2 \in BOOLEAN, r2 \in SignalResults,
                    dl \in DlResults} :
        Iterate(o, TRUE)

\* After the CORE loop, exhausted or left by `break`: the candidates are
\* refreshed for EuropePMC.
CoreEnd ==
    /\ pc \in {"p5a_loop", "p5a_abort"}
    /\ pc = "p5a_loop" => todo = <<>>
    /\ todo' = SortedSeq(RepoCandidates(manifest))
    /\ phaseLog' = Append(phaseLog, "europepmc")
    /\ pc' = "p5b_loop"
    /\ completed' = 0
    /\ streak' = 0
    /\ lastReq' = <<>>
    /\ rlRun' = 0
    /\ UNCHANGED call
    /\ UNCHANGED <<flags, papers, manifest, disk, vpn, scholarDelay, currentDelay>>

\* One iteration of a loop `look up, download, update and save on success`
\* (EuropePMC, arXiv, Crossref, Sci-Hub); asks: the adapter issues a request.
LookupOutcome(pid, src, asks, r, dl) ==
    LET a == IF asks THEN r ELSE "none"
        look == IF asks THEN <<Req("lookup", src, pid, a)>> ELSE <<>>
        reqs == IF a = "url" THEN Append(look, Req("download", src, pid, dl))
                ELSE look
        got == a = "url" /\ dl = "ok"
    IN  IF a = "url" /\ dl = "raise" THEN Raised(reqs)
        ELSE Outcome(IF got
                     THEN UpdateEntry(manifest, pid, "downloaded", src, "pdf", PdfPath)
                     ELSE manifest,
                     got, vpn, streak, reqs, "next")

\* Askable: the ids for which the adapter issues a request; Answers: what
\* it may answer in the modelled runs.
LookupStep(loop, src, Askable, Answers) ==
    /\ pc = loop
    /\ todo # <<>>
    /\ \E o \in {LookupOutcome(Head(todo), src, Head(todo) \in Askable, r, dl) :
                    r \in Answers, dl \in DlResults} :
        Iterate(o, FALSE)

EpmcStep(Answers) ==
    LookupStep("p5b_loop", "europepmc", {p \in DOMAIN manifest : DoiOrTitle(p)}, Answers)

EpmcEnd ==
    /\ pc = "p5b_loop"
    /\ todo = <<>>
    /\ todo' = SortedSeq(RepoCandidates(manifest))
    /\ phaseLog' = Append(phaseLog, "arxiv")
    /\ pc' = "p5c_loop"
    /\ lastReq' = <<>>
    /\ UNCHANGED <<flags, papers, manifest, disk, completed, streak, vpn,
                   scholarDelay, currentDelay, rlRun, call>>

\* `if not title: continue`
HasTitle(pid) == manifest[pid].title # ""

ArxivStep(Answers) ==
    LookupStep("p5c_loop", "arxiv", {p \in DOMAIN manifest : HasTitle(p)}, Answers)

ArxivEnd == End("p5c_loop", "p5_end", FALSE)

\* Return of run_repo_api_phase and the save_manifest after it; with
\* --repos-only the command returns here.
RepoEnd ==
    /\ pc = "p5_end"
    /\ disk' = manifest
    /\ pc' = IF flags.repos_only THEN "done" ELSE "p6"
    /\ lastReq' = <<>>
    /\ UNCHANGED <<flags, papers, manifest, todo, completed, streak, vpn, phaseLog,
                   scholarDelay, currentDelay, rlRun, call>>

(* -------------------------- Phase 7: Crossref ------------------------- *)

CrossrefBegin ==
    Begin("p7", CrossrefEnabled(flags), "crossref", CrossrefCandidates(manifest),
          "p7_loop", "p8")

\* crossref.find_pdf_url and scihub.find_pdf_url need a DOI.
HasDoi(pid) == manifest[pid].doi # ""

CrossrefStep ==
    LookupStep("p7_loop", "crossref", {p \in DOMAIN manifest : HasDoi(p)}, PlainResults)

CrossrefEnd == End("p7_loop", "p8", TRUE)

(* --------------------- Phase 8: institutional proxy ------------------- *)

\* run_proxy_phase returns before its loop when no base URL is configured.
ProxyBegin ==
    \E X \in SUBSET (DOMAIN manifest) :
        Begin("p8", ProxyEnabled(flags), "institutional_proxy",
              IF flags.proxy_base THEN ProxyCandidates(manifest, X) ELSE {},
              "p8_loop", "p9")

\* Lines 400-416.
ProxyOutcome(pid, dl) ==
    LET reqs == <<Req("download", "institutional_proxy", pid, dl)>>
    IN  IF dl = "raise" THEN Raised(reqs)
        ELSE Outcome(IF dl = "ok"
                     THEN UpdateEntry(manifest, pid, "downloaded", "institutional_proxy",
                                      "proxied", PdfPath)
                     ELSE manifest,
                     dl = "ok", vpn, streak, reqs, "next")

ProxyStep ==
    /\ pc = "p8_loop"
    /\ todo # <<>>
    /\ \E o \in {ProxyOutcome(Head(todo), dl) : dl \in DlResults} :
        Iterate(o, FALSE)

ProxyEnd == End("p8_loop", "p9", TRUE)

(* --------------------------- Phase 9: Sci-Hub ------------------------- *)

ScihubBegin ==
    Begin("p9", ScihubEnabled(flags), "scihub", ScihubCandidates(manifest),
          "p9_loop", "done")

ScihubStep ==
    LookupStep("p9_loop", "scihub", {p \in DOMAIN manifest : HasDoi(p)}, PlainResults)

ScihubEnd == End("p9_loop", "done", TRUE)

(* --------------------------- specifications --------------------------- *)

\* The phases of download() after the prelude.
Phases ==
    \/ EnrichDois({"", "dM"}, {"", "dA"})
    \/ OpenAccessBegin \/ OpenAccessStep \/ OpenAccessEnd
    \/ UnpaywallBegin \/ UnpaywallStep \/ UnpaywallEnd
    \/ TransformBegin("p3", "p3_loop", "p4", "url_transform")
    \/ TransformStep("p3_loop")
    \/ TransformEnd("p3_loop", "p4")
    \/ ScholarBegin \/ ScholarStep \/ ScholarEnd
    \/ RepoBegin \/ CoreStep \/ CoreEnd
    \/ EpmcStep(PlainResults) \/ EpmcEnd
    \/ ArxivStep(PlainResults) \/ ArxivEnd \/ RepoEnd
    \/ TransformBegin("p6", "p6_loop", "p7", "url_transform_2")
    \/ TransformStep("p6_loop")
    \/ TransformEnd("p6_loop", "p7")
    \/ CrossrefBegin \/ CrossrefStep \/ CrossrefEnd
    \/ ProxyBegin \/ ProxyStep \/ ProxyEnd
    \/ ScihubBegin \/ ScihubStep \/ ScihubEnd

\* Every phase enabled: an Unpaywall email, the institutional proxy with
\* its base URL, and Sci-Hub.
AllPhasesOn ==
    [n \in FlagNames |->
        n \in {"email", "use_proxy_institutional", "proxy_base", "use_scihub"}]

\* The runs of the pipeline specification: every phase enabled, with and
\* without the retry resets.
PipelineFlags ==
    {f \in AllFlags :
        \A n \in FlagNames \ {"retry_failed", "retry_not_found"} : f[n] = AllPhasesOn[n]}

PipelinePapers == {1, 2}

\* Any number of runs of the command, each over the manifest file the
\* previous ones left, each killed at any point or run to its end.
Next ==
    \/ StartRun(PipelineFlags, {PipelinePapers}, {"", "dM"}, {DefaultScholarDelay})
    \/ Phases
    \/ Kill

Spec == Init /\ [][Next]_vars

\* The runs of the opt-in specification: no mode flag, no retry reset, an
\* Unpaywall email, and every combination of --use-proxy-institutional,
\* a configured proxy base URL and --use-scihub.
OptInFlags ==
    {f \in AllFlags :
        \A n \in FlagNames \ {"use_proxy_institutional", "proxy_base", "use_scihub"} :
            f[n] = (n = "email")}

\* As Spec, over a dataset whose metadata has the DOI of every paper.
NextOptIn ==
    \/ StartRun(OptInFlags, {PipelinePapers}, {"dM"}, {DefaultScholarDelay})
    \/ EnrichDois({"dM"}, {""})
    \/ OpenAccessBegin \/ OpenAccessStep \/ OpenAccessEnd
    \/ UnpaywallBegin \/ UnpaywallStep \/ UnpaywallEnd
    \/ TransformBegin("p3", "p3_loop", "p4", "url_transform")
    \/ TransformStep("p3_loop")
    \/ TransformEnd("p3_loop", "p4")
    \/ ScholarBegin \/ ScholarStep \/ ScholarEnd
    \/ RepoBegin \/ CoreStep \/ CoreEnd
    \/ EpmcStep(PlainResults) \/ EpmcEnd
    \/ ArxivStep(PlainResults) \/ ArxivEnd \/ RepoEnd
    \/ TransformBegin("p6", "p6_loop", "p7", "url_transform_2")
    \/ TransformStep("p6_loop")
    \/ TransformEnd("p6_loop", "p7")
    \/ CrossrefBegin \/ CrossrefStep \/ CrossrefEnd
    \/ ProxyBegin \/ ProxyStep \/ ProxyEnd
    \/ ScihubBegin \/ ScihubStep \/ ScihubEnd
    \/ Kill

SpecOptIn == Init /\ [][NextOptIn]_vars

\* The CORE specification: runs with --repos-only, with and without
\* --use-vpn, over a manifest file in which an earlier run left every
\* paper not_found after Google Scholar; EuropePMC and arXiv find nothing.
CorePapers == 1..NumCorePapers

CoreFlags ==
    {f \in AllFlags : \A n \in FlagNames \ {"use_vpn"} : f[n] = (n = "repos_only")}

CoreManifest ==
    [p \in CorePapers |->
        [NewEntry("", "t") EXCEPT !.status = "not_found", !.source = "google_scholar"]]

InitCore ==
    /\ pc = "idle"
    /\ flags = NoFlags
    /\ papers = {}
    /\ manifest = NoManifest
    /\ disk = CoreManifest
    /\ todo = <<>>
    /\ completed = 0
    /\ streak = 0
    /\ vpn = NoVpn
    /\ phaseLog = <<>>
    /\ lastReq = <<>>
    /\ scholarDelay = 0
    /\ currentDelay = 0
    /\ rlRun = 0
    /\ call = NoCall

NextCore ==
    \/ StartRun(CoreFlags, {CorePapers}, {""}, {DefaultScholarDelay})
    \/ RepoBegin \/ CoreStep \/ CoreEnd
    \/ EpmcStep({"none"}) \/ EpmcEnd
    \/ ArxivStep({"none"}) \/ ArxivEnd \/ RepoEnd
    \/ Kill

SpecCore == InitCore /\ [][NextCore]_vars

(* ------------- a VPNSwitcher driven method by method ------------------ *)

\* The values of rotate_every_n_papers are 1..MaxEvery.
MaxEvery == 3

\* should_rotate_proactively is asked for 0..MaxAsked.
MaxAsked == 6

\* rotate() is not called again once _consecutive_failures is FailureCap.
FailureCap == 5

\* __init__: a VPNSwitcher configured with rotate_every_n_papers = every.
NewVpn(every) ==
    [present |-> TRUE, connected |-> FALSE, failures |-> 0, every |-> every]

InitVpn ==
    /\ pc = "vpn_object"
    /\ flags = NoFlags
    /\ papers = {}
    /\ manifest = NoManifest
    /\ disk = NoManifest
    /\ todo = <<>>
    /\ completed = 0
    /\ streak = 0
    /\ vpn \in {NewVpn(every) : every \in 1..MaxEvery}
    /\ phaseLog = <<>>
    /\ lastReq = <<>>
    /\ scholarDelay = 0
    /\ currentDelay = 0
    /\ rlRun = 0
    /\ call = NoCall

\* A call of method kind with argument n, recorded with its result.
Called(kind, n, res) == <<[VpnOp(kind, "caller", res) EXCEPT !.pid = n]>>

CallRotate ==
    /\ vpn.failures < FailureCap
    /\ \E ok \in BOOLEAN, disc \in BOOLEAN :
        /\ vpn' = Rotate(vpn, ok, disc)
        /\ lastReq' = Called("rotate", 0, IF ok THEN "ok" ELSE "fail")
    /\ UNCHANGED <<pc, flags, papers, manifest, disk, todo, completed, streak,
                   phaseLog, scholarDelay, currentDelay, rlRun, call>>

CallShouldRotateProactively ==
    /\ \E n \in 0..MaxAsked :
        lastReq' = Called("should_rotate_proactively", n,
                          IF ShouldRotateProactively(vpn, n) THEN "yes" ELSE "no")
    /\ UNCHANGED <<pc, flags, papers, manifest, disk, todo, completed, streak,
                   vpn, phaseLog, scholarDelay, currentDelay, rlRun, call>>

CallHasFailedPermanently ==
    /\ lastReq' = Called("has_failed_permanently", 0,
                         IF HasFailedPermanently(vpn) THEN "yes" ELSE "no")
    /\ UNCHANGED <<pc, flags, papers, manifest, disk, todo, completed, streak,
                   vpn, phaseLog, scholarDelay, currentDelay, rlRun, call>>

NextVpn ==
    \/ CallRotate
    \/ CallShouldRotateProactively
    \/ CallHasFailedPermanently

SpecVpn == InitVpn /\ [][NextVpn]_vars

(* ------------- the two loops that rotate the VPN ---------------------- *)

\* The papers of the dataset of the rotation specification.
NumRotationPapers == 3

RotationPapers == 1..NumRotationPapers

\* --scholar-delay: a value below and a value above delay_after_rotation.
ScholarDelays == {2, 5}

\* Runs with --scholar-only --skip-unpaywall and runs with --repos-only,
\* each with and without --use-vpn.
RotationFlags ==
    {f \in AllFlags :
        /\ f.scholar_only # f.repos_only
        /\ f.skip_unpaywall = f.scholar_only
        /\ \A n \in FlagNames \ {"scholar_only", "repos_only", "skip_unpaywall",
                                 "use_vpn"} : ~f[n]}

\* Google Scholar runs leave failed and not_found entries, which the
\* --repos-only runs take as the candidates of CORE.
NextRotation ==
    \/ StartRun(RotationFlags, {RotationPapers}, {""}, ScholarDelays)
    \/ EnrichDois({""}, {""})
    \/ OpenAccessBegin
    \/ UnpaywallBegin
    \/ TransformBegin("p3", "p3_loop", "p4", "url_transform")
    \/ ScholarBegin \/ ScholarStep \/ ScholarEnd
    \/ RepoBegin \/ CoreStep \/ CoreEnd
    \/ EpmcStep({"none"}) \/ EpmcEnd
    \/ ArxivStep({"none"}) \/ ArxivEnd \/ RepoEnd
    \/ TransformBegin("p6", "p6_loop", "p7", "url_transform_2")
    \/ CrossrefBegin
    \/ ProxyBegin
    \/ ScihubBegin
    \/ Kill

SpecRotation == Init /\ [][NextRotation]_vars

(* ----------------- src/core_api.py: find_pdf_url ---------------------- *)

\* max_retries is drawn from 0..MaxCoreRetries.
MaxCoreRetries == 3

\* backoff_factor is drawn from 1..MaxBackoffFactor.
MaxBackoffFactor == 3

\* `backoff = 5 * (backoff_factor**attempt)`
BackoffBase == 5

\* `delay: float = 1.0`, slept by the `finally` after every request
CoreDelay == 1

\* The variables of the download command: a function called on its own
\* leaves them alone.
commandVars == <<pc, flags, papers, manifest, disk, todo, completed, streak,
                 vpn, phaseLog, lastReq, scholarDelay, currentDelay, rlRun>>

RECURSIVE Pow(_, _)
Pow(b, e) == IF e = 0 THEN 1 ELSE b * Pow(b, e - 1)

\* An event of a call: a request ("request", the query or URL, the answer),
\* a sleep ("backoff", "delay": the seconds) or a write of the file.
Ev(kind, arg, res) == [kind |-> kind, arg |-> arg, res |-> res]

\* Backoff with the exponent counted from one.
Backoff_FromOne(factor, attempt) == BackoffBase * Pow(factor, attempt + 1)

\* Line 115: the wait before the retry that follows attempt.
Backoff(factor, attempt) == BackoffBase * Pow(factor, attempt)

\* Titles without a word of more than two letters give no title query.
TitleQuery(title) == IF title \in {"", "of"} THEN "" ELSE "title"

\* Lines 95-101: the DOI query first, then the title query.
Queries(doi, title) ==
    (IF doi # "" THEN <<"doi">> ELSE <<>>)
    \o (IF title # "" /\ TitleQuery(title) # "" THEN <<"title">> ELSE <<>>)

\* The answers of the CORE API: 429, 200 with and without a PDF link,
\* another status, and a transport error.
CoreAnswers == {"429", "200_pdf", "200_empty", "500", "error"}

\* find_pdf_url is called: `if not doi and not title: return None, False`.
CoreApiEnter ==
    /\ call.done
    /\ \E doi \in {"", "d"}, title \in {"", "of", "t"},
          retries \in 0..MaxCoreRetries, factor \in 1..MaxBackoffFactor :
        call' = [fn |-> "find_pdf_url", maxRetries |-> retries,
                 factor |-> factor, queries |-> Queries(doi, title),
                 attempt |-> 0, log |-> <<>>,
                 done |-> doi = "" /\ title = "",
                 url |-> FALSE, rl |-> FALSE]
    /\ UNCHANGED commandVars

\* Lines 103-142: one pass of the attempt loop, with the `finally` sleep.
CoreApiRequest ==
    /\ call.fn = "find_pdf_url"
    /\ ~call.done
    /\ call.queries # <<>>
    /\ call.attempt <= call.maxRetries
    /\ \E a \in CoreAnswers :
        LET asked == Append(call.log, Ev("request", Head(call.queries), a))
            rest == <<Ev("delay", CoreDelay, "")>>
        IN  call' =
              IF a = "429" /\ call.attempt < call.maxRetries
              THEN [call EXCEPT
                      !.log = asked
                              \o <<Ev("backoff", Backoff(call.factor, call.attempt), "")>>
                              \o rest,
                      !.attempt = @ + 1]
              ELSE IF a = "429"
              THEN [call EXCEPT !.log = asked \o rest, !.done = TRUE, !.rl = TRUE]
              ELSE IF a = "200_pdf"
              THEN [call EXCEPT !.log = asked \o rest, !.done = TRUE, !.url = TRUE]
              ELSE [call EXCEPT !.log = asked \o rest, !.queries = Tail(@),
                                !.attempt = 0]
    /\ UNCHANGED commandVars

\* Line 144: `return None, False` after the last query.
CoreApiReturn ==
    /\ call.fn = "find_pdf_url"
    /\ ~call.done
    /\ call.queries = <<>>
    /\ call' = [call EXCEPT !.done = TRUE]
    /\ UNCHANGED commandVars

NextCoreApi == CoreApiEnter \/ CoreApiRequest \/ CoreApiReturn

SpecCoreApi == Init /\ [][NextCoreApi]_vars

(* ------------------- src/download.py: download_pdf -------------------- *)

\* max_retries is drawn from 0..MaxDlRetries.
MaxDlRetries == 4

\* `wait = 2**attempt`
RetryBase == 2

\* b"%PDF-"
PdfMagic == <<"%", "P", "D", "F", "-">>

\* is_pdf comparing four bytes only.
IsPdf_FourBytes(content) ==
    SubSeq(content, 1, Min(4, Len(content))) = SubSeq(PdfMagic, 1, 4)

\* is_pdf: `content[:5] == b"%PDF-"`
IsPdf(content) == SubSeq(content, 1, Min(5, Len(content))) = PdfMagic

\* RetryWait as twice the attempt number.
RetryWait_Doubled(attempt) == RetryBase * attempt

\* Lines 79 and 88: the wait after the failed attempt.
RetryWait(attempt) == Pow(RetryBase, attempt)

\* Response bodies: empty, the signature cut short, the signature alone, a
\* PDF, an HTML page, and the signature after another byte.
Bodies ==
    {<<>>, SubSeq(PdfMagic, 1, 4), PdfMagic, PdfMagic \o <<"1">>,
     <<"<", "h", "t", "m", "l", ">">>, <<"x">> \o PdfMagic}

\* What session.get and raise_for_status give: a body, an HTTPError, or
\* another RequestException.
DlAnswers ==
    {[res |-> "200", body |-> b] : b \in Bodies}
    \cup {[res |-> r, body |-> <<>>] : r \in {"http_error", "error"}}

\* The destination before the call: absent, or a file of an earlier run.
NoFile == [exists |-> FALSE, content |-> <<>>]

OldFile == [exists |-> TRUE, content |-> <<"o", "l", "d">>]

\* output_path.write_bytes(content): written; OSError before the file is
\* opened; OSError after it was opened for writing (cut bytes were written).
WriteBytes(file, content, how, cut) ==
    IF how = "ok" THEN [exists |-> TRUE, content |-> content]
    ELSE IF how = "raise_open" THEN file
    ELSE [exists |-> TRUE, content |-> SubSeq(content, 1, cut)]

\* download_pdf is called; line 49: mkdir of the parent directory, which
\* may raise OSError.
DownloadEnter ==
    /\ call.done
    /\ \E retries \in 0..MaxDlRetries, f \in {NoFile, OldFile}, mk \in BOOLEAN :
        call' = [fn |-> "download_pdf", maxRetries |-> retries, attempt |-> 0,
                 log |-> <<>>, file0 |-> f, file |-> f,
                 done |-> ~mk, ret |-> FALSE, raised |-> ~mk]
    /\ UNCHANGED commandVars

\* Lines 59-94: one pass of `for attempt in range(max_retries)`.
DownloadAttempt ==
    /\ call.fn = "download_pdf"
    /\ ~call.done
    /\ call.attempt < call.maxRetries
    /\ \E a \in DlAnswers :
        LET asked == Append(call.log, Ev("request", a.body, a.res))
        IN  IF a.res = "200" /\ IsPdf(a.body)
            THEN \E how \in {"ok", "raise_open", "raise_cut"},
                    cut \in 0..(Len(a.body) - 1) :
                    call' = [call EXCEPT
                               !.log = Append(asked, Ev("write", a.body, how)),
                               !.file = WriteBytes(@, a.body, how, cut),
                               !.done = TRUE,
                               !.ret = how = "ok",
                               !.raised = how # "ok"]
            ELSE IF a.res = "200"
            THEN call' = [call EXCEPT !.log = asked, !.done = TRUE]
            ELSE IF call.attempt < call.maxRetries - 1
            THEN call' = [call EXCEPT
                            !.log = Append(asked,
                                           Ev("sleep", RetryWait(call.attempt), "")),
                            !.attempt = @ + 1]
            ELSE call' = [call EXCEPT !.log = asked, !.done = TRUE]
    /\ UNCHANGED commandVars

\* Line 96: `return False` after a loop that made no attempt.
DownloadExhausted ==
    /\ call.fn = "download_pdf"
    /\ ~call.done
    /\ call.attempt >= call.maxRetries
    /\ call' = [call EXCEPT !.done = TRUE]
    /\ UNCHANGED commandVars

NextDownloadPdf == DownloadEnter \/ DownloadAttempt \/ DownloadExhausted

SpecDownloadPdf == Init /\ [][NextDownloadPdf]_vars

(* ------------- runs with and without the configuration ---------------- *)

\* Runs with --use-proxy-institutional and --use-scihub, with and without
\* an Unpaywall email and a proxy base URL in the settings.
ConfigFlags ==
    {f \in AllFlags :
        /\ f.use_proxy_institutional /\ f.use_scihub
        /\ \A n \in FlagNames \ {"use_proxy_institutional", "use_scihub",
                                 "email", "proxy_base"} : ~f[n]}

NextConfig ==
    \/ StartRun(ConfigFlags, {PipelinePapers}, {"dM"}, {DefaultScholarDelay})
    \/ Phases
    \/ Kill

SpecConfig == Init /\ [][NextConfig]_vars

(* ------------------- runs with --repos-only --------------------------- *)

\* --repos-only together with any of the other mode, skip, opt-in and
\* retry flags; the email and the proxy base URL are configured.
ReposFlags ==
    {f \in AllFlags :
        /\ f.repos_only /\ f.email /\ f.proxy_base
        /\ ~f.use_vpn /\ ~f.retry_not_found}

\* The manifest file left by earlier runs: one paper failed with a URL, one
\* not found, both with a DOI.
ReposManifest ==
    [p \in PipelinePapers |->
        IF p = 1
        THEN [NewEntry("dM", "t") EXCEPT !.status = "failed", !.source = "crossref",
                                         !.url = "pdf"]
        ELSE [NewEntry("dM", "t") EXCEPT !.status = "not_found",
                                         !.source = "google_scholar"]]

InitRepos ==
    /\ pc = "idle"
    /\ flags = NoFlags
    /\ papers = {}
    /\ manifest = NoManifest
    /\ disk = ReposManifest
    /\ todo = <<>>
    /\ completed = 0
    /\ streak = 0
    /\ vpn = NoVpn
    /\ phaseLog = <<>>
    /\ lastReq = <<>>
    /\ scholarDelay = 0
    /\ currentDelay = 0
    /\ rlRun = 0
    /\ call = NoCall

NextRepos ==
    \/ StartRun(ReposFlags, {PipelinePapers}, {"dM"}, {DefaultScholarDelay})
    \/ RepoBegin \/ CoreStep \/ CoreEnd
    \/ EpmcStep(PlainResults) \/ EpmcEnd
    \/ ArxivStep(PlainResults) \/ ArxivEnd \/ RepoEnd
    \/ Kill

SpecRepos == InitRepos /\ [][NextRepos]_vars

(* ------------------- runs with an exclusive mode flag ----------------- *)

\* Exactly one of --scholar-only and --open-access-only, together with any
\* of --skip-unpaywall, --use-proxy-institutional and --use-scihub; the
\* email and the proxy base URL are configured.
ModeFlags ==
    {f \in AllFlags :
        /\ f.scholar_only # f.open_access_only
        /\ f.email /\ f.proxy_base
        /\ \A n \in {"repos_only", "use_vpn", "retry_failed", "retry_not_found"} :
              ~f[n]}

\* The phases that download() can enter under a mode flag: the blocks of
\* phases 3, 5, 6 and 7 are skipped by their `if`.
NextModes ==
    \/ StartRun(ModeFlags, {PipelinePapers}, {"dM"}, {DefaultScholarDelay})
    \/ EnrichDois({"dM"}, {""})
    \/ OpenAccessBegin \/ OpenAccessStep \/ OpenAccessEnd
    \/ UnpaywallBegin \/ UnpaywallStep \/ UnpaywallEnd
    \/ TransformBegin("p3", "p3_loop", "p4", "url_transform")
    \/ ScholarBegin \/ ScholarStep \/ ScholarEnd
    \/ RepoBegin
    \/ TransformBegin("p6", "p6_loop", "p7", "url_transform_2")
    \/ CrossrefBegin
    \/ ProxyBegin \/ ProxyStep \/ ProxyEnd
    \/ ScihubBegin \/ ScihubStep \/ ScihubEnd
    \/ Kill

SpecModes == Init /\ [][NextModes]_vars

(* ------------- load_manifest, init_manifest, save_manifest ------------ *)

InitPapers == {1, 2, 3}

\* Entries that earlier runs may have left in the manifest file.
OldEntries ==
    {NewEntry("", "t"),
     [NewEntry("dM", "t") EXCEPT !.status = "downloaded", !.source = "open_access",
                                 !.url = "pdf", !.file_path = PdfPath],
     [NewEntry("", "t") EXCEPT !.status = "failed", !.source = "google_scholar",
                               !.url = "pdf"],
     [NewEntry("dA", "t") EXCEPT !.status = "not_found",
                                 !.source = "google_scholar"]}

\* The manifest files of earlier runs over the first two papers.
ManifestFiles ==
    UNION {[S -> OldEntries] : S \in SUBSET {1, 2}}

InitFile ==
    /\ pc = "idle"
    /\ flags = NoFlags
    /\ papers = {}
    /\ manifest = NoManifest
    /\ disk \in ManifestFiles
    /\ todo = <<>>
    /\ completed = 0
    /\ streak = 0
    /\ vpn = NoVpn
    /\ phaseLog = <<>>
    /\ lastReq = <<>>
    /\ scholarDelay = 0
    /\ currentDelay = 0
    /\ rlRun = 0
    /\ call = NoCall

\* Lines 535-538 of a run over the dataset ids whose paper snapshots are
\* seed: the manifest loaded, the manifest initialised, and the save.
LoadInitSave(ids, seed, n, first) ==
    LET before == disk
        after == InitManifest(ids, seed, before)
    IN  /\ call' = [fn |-> "init_manifest", done |-> n = 2, ids |-> ids,
                    seed |-> seed, before |-> before, after |-> after,
                    first |-> IF n = 1 THEN after ELSE first, runs |-> n]
        /\ manifest' = after
        /\ disk' = after
        /\ papers' = ids
        /\ UNCHANGED <<pc, flags, todo, completed, streak, vpn, phaseLog,
                       lastReq, scholarDelay, currentDelay, rlRun>>

\* A run over some dataset.
FirstInit ==
    /\ call.done
    /\ \E ids \in SUBSET InitPapers :
       \E doi \in [ids -> {"", "dM"}] :
          LoadInitSave(ids, [p \in ids |-> NewEntry(doi[p], "t")], 1, NoManifest)

\* The next run, over the same dataset.
SecondInit ==
    /\ call.fn = "init_manifest"
    /\ ~call.done
    /\ LoadInitSave(call.ids, call.seed, 2, call.first)

NextInit == FirstInit \/ SecondInit

SpecInit == InitFile /\ [][NextInit]_vars

(* ---------------- the sleeps of the loops of two phases --------------- *)

\* The candidates of a phase called on its own.
NumSleepPapers == 3

RECURSIVE TransformEvents(_, _, _, _)
\* Lines 167-184 for candidate i with n alternatives, from alternative j
\* on, the k-th being the first that downloads: each download_pdf, and the
\* time.sleep(dl_delay) of line 184, which the `break` of line 182 skips.
TransformEvents(i, n, k, j) ==
    IF j > n THEN <<>>
    ELSE IF j = k THEN <<Ev("download", i, "ok")>>
    ELSE <<Ev("download", i, "fail"), Ev("sleep", i, "dl_delay")>>
         \o TransformEvents(i, n, k, j + 1)

\* Lines 225-276 for candidate i without a VPN: core_find_pdf_url with the
\* answer r of its request and the sleep of its `finally`, then, under
\* `if pdf_url:`, download_pdf and time.sleep(dl_delay).
CoreEvents(i, r, dl) ==
    <<Ev("lookup", i, r), Ev("sleep", i, "core_delay")>>
    \o (IF r = "url" THEN <<Ev("download", i, dl), Ev("sleep", i, "dl_delay")>>
        ELSE <<>>)

\* A call of a phase function over NumSleepPapers candidates.
SleepsEnter ==
    /\ call.done
    /\ \E fn \in {"run_url_transform_phase", "run_repo_api_phase"} :
        call' = [fn |-> fn, done |-> FALSE, i |-> 1, log |-> <<>>]
    /\ UNCHANGED commandVars

\* One iteration of the loop of the function.
SleepsIterate(fn, Events) ==
    /\ call.fn = fn
    /\ ~call.done
    /\ \E ev \in Events :
        call' = [call EXCEPT !.log = @ \o ev, !.i = @ + 1,
                             !.done = call.i = NumSleepPapers]
    /\ UNCHANGED commandVars

TransformIterate ==
    SleepsIterate("run_url_transform_phase",
                  {TransformEvents(call.i, n, k, 1) :
                      n \in 1..MaxAlts, k \in 1..(MaxAlts + 1)})

CoreIterate ==
    SleepsIterate("run_repo_api_phase",
                  {CoreEvents(call.i, r, dl) :
                      r \in SignalResults, dl \in {"ok", "fail"}})

NextSleeps == SleepsEnter \/ TransformIterate \/ CoreIterate

SpecSleeps == Init /\ [][NextSleeps]_vars

(* ------------------- the cooldown of VPNSwitcher.rotate --------------- *)

\* min_rotation_interval, in the unit of the clock.
MinRotationInterval == 4

\* The time.sleep(2) between the disconnect and the connect (line 176).
DisconnectPause == 2

\* Where the clock stops and how many calls of rotate() are followed.
MaxClock == 8

MaxRotations == 3

\* The time that a subprocess or a request takes, or post_connect_delay.
Durations == {0, 1}

\* Lines 165-169 without `time.sleep(wait)`.
CooldownWait_None(last, now) == 0

\* Lines 165-169: the time rotate() sleeps when called at `now` with
\* _last_rotation_time = last.
CooldownWait(last, now) ==
    IF last > 0 /\ now - last < MinRotationInterval
    THEN MinRotationInterval - (now - last)
    ELSE 0

\* A VPNSwitcher is made: _last_rotation_time = 0.0; time.time() is positive.
CooldownNew ==
    /\ call.fn = "none"
    /\ call' = [fn |-> "VPNSwitcher", done |-> FALSE, now |-> 1, last |-> 0,
                log |-> <<>>]
    /\ UNCHANGED commandVars

\* Time passes between two calls of rotate().
CooldownTick ==
    /\ call.fn = "VPNSwitcher"
    /\ call.now < MaxClock
    /\ call' = [call EXCEPT !.now = @ + 1]
    /\ UNCHANGED commandVars

\* rotate() (lines 164-198): the cooldown sleep, get_external_ip, the
\* disconnect and its pause, the connect at time `at` with result ok, and,
\* on success, post_connect_delay and the verification before
\* _last_rotation_time is set.
CooldownRotate ==
    /\ call.fn = "VPNSwitcher"
    /\ Len(call.log) < MaxRotations
    /\ \E ok \in BOOLEAN, pre \in Durations, post \in Durations :
        LET wait == CooldownWait(call.last, call.now)
            at == call.now + wait + pre + DisconnectPause
            end == IF ok THEN at + post ELSE at
        IN  call' = [call EXCEPT
                        !.now = end,
                        !.last = IF ok THEN end ELSE @,
                        !.log = Append(@, [start |-> call.now, wait |-> wait,
                                           at |-> at, ok |-> ok, last |-> call.last])]
    /\ UNCHANGED commandVars

NextCooldown == CooldownNew \/ CooldownTick \/ CooldownRotate

SpecCooldown == Init /\ [][NextCooldown]_vars

(* ------------- VPNSwitcher.rotate: its result and its state ----------- *)

\* How many of the last entries of _recent_locations the smart strategy
\* avoids (`self._recent_locations[-5:]`).
RecentWindow == 5

\* The calls of rotate() that are followed.
MaxCalls == 4

\* _recent_locations[-5:]
LastRecent(recent) ==
    SubSeq(recent, IF Len(recent) > RecentWindow THEN Len(recent) - RecentWindow + 1 ELSE 1,
           Len(recent))

\* The smart strategy choosing among all the locations.
SmartAvailable_FullPool(pool, recent) == Range(pool)

\* Lines 149-151: the locations the smart strategy chooses among.
SmartAvailable(pool, recent) ==
    LET available == {pool[i] : i \in DOMAIN pool} \ Range(LastRecent(recent))
    IN  IF available = {} THEN Range(pool) ELSE available

\* _pick_next_location (lines 140-153): the locations it may return, each
\* with _sequential_index after the call (kept modulo the length of the
\* list, which is all the code uses of it).
PickNextLocation(strategy, pool, recent, idx) ==
    IF strategy = "random" THEN {[loc |-> l, idx |-> idx] : l \in Range(pool)}
    ELSE IF strategy = "sequential"
    THEN {[loc |-> pool[(idx % Len(pool)) + 1], idx |-> (idx + 1) % Len(pool)]}
    ELSE {[loc |-> l, idx |-> idx] : l \in SmartAvailable(pool, recent)}

\* What the verification of lines 186-192 finds after a connect: it is
\* skipped (verify_ip off or no old address), the service gives no address,
\* the same address, or another one.
Verifications == {"skipped", "none", "unchanged", "changed"}

\* rotate() returning False when the address did not change.
RotateResult_Verified(ok, disc, ver) == ok /\ ver # "unchanged"

\* The value rotate() returns: False at line 183, after a failed _connect,
\* True at line 198; the result of _disconnect (line 175) is dropped.
RotateResult(ok, disc, ver) == ok

\* VPNSwitcher.__init__ (lines 48-62) with a strategy and a list of
\* locations; `now` counts the calls made, as the clock of the object.
NewSwitcher(strategy, pool) ==
    [fn |-> "rotate", done |-> FALSE, strategy |-> strategy, pool |-> pool,
     recent |-> <<>>, idx |-> 0, failures |-> 0, last |-> 0, now |-> 0,
     ret |-> [value |-> FALSE, ok |-> FALSE, disc |-> FALSE, ver |-> "skipped",
              loc |-> 0]]

\* rotate() (lines 164-198) on the object of `call`: _disconnect gives disc,
\* _connect to the location picked gives ok, the verification finds ver.
RotateOn(ok, disc, ver) ==
    \E p \in PickNextLocation(call.strategy, call.pool, call.recent, call.idx) :
        LET value == RotateResult(ok, disc, ver)
        IN  call' = [call EXCEPT
                        !.now = @ + 1,
                        !.idx = p.idx,
                        !.failures = IF ok THEN 0 ELSE @ + 1,
                        !.recent = IF ok THEN Append(@, p.loc) ELSE @,
                        !.last = IF ok THEN call.now + 1 ELSE @,
                        !.ret = [value |-> value, ok |-> ok, disc |-> disc,
                                 ver |-> IF ok THEN ver ELSE "skipped",
                                 loc |-> p.loc]]

SwitcherNew ==
    /\ call.fn = "none"
    /\ \E strategy \in {"random", "sequential", "smart"} :
        call' = NewSwitcher(strategy, <<1, 2>>)
    /\ UNCHANGED commandVars

SwitcherRotate ==
    /\ call.fn = "rotate"
    /\ call.now < MaxCalls
    /\ \E ok \in BOOLEAN, disc \in BOOLEAN, ver \in Verifications :
        RotateOn(ok, disc, ver)
    /\ UNCHANGED commandVars

NextSwitcher == SwitcherNew \/ SwitcherRotate

SpecSwitcher == Init /\ [][NextSwitcher]_vars

(* ------------------- the smart strategy over rotations ---------------- *)

\* The calls of rotate() that are followed with the smart strategy.
MaxSmartCalls == 8

\* preferred_locations: a list all of whose locations fit in the window of
\* the smart strategy, one with a location twice, and one with more
\* locations than the window.
SmartPools == {<<1, 2, 3>>, <<1, 2, 2>>, <<1, 2, 3, 4, 5, 6>>}

SmartNew ==
    /\ call.fn = "none"
    /\ \E pool \in SmartPools : call' = NewSwitcher("smart", pool)
    /\ UNCHANGED commandVars

\* rotate() with the address verification off.
SmartRotate ==
    /\ call.fn = "rotate"
    /\ call.now < MaxSmartCalls
    /\ \E ok \in BOOLEAN : RotateOn(ok, TRUE, "skipped")
    /\ UNCHANGED commandVars

NextSmart == SmartNew \/ SmartRotate

SpecSmart == Init /\ [][NextSmart]_vars

(* ------------------------ get_transform_urls -------------------------- *)

\* The depth at which the interpreter raises RecursionError.
RecursionLimit == 5

\* URLs whose host contains "doi.org".
DoiUrls == {"doi.org/a", "doi.org/b", "doi.org/c"}

\* A URL of a host that has a rewrite rule, and one of a host that has none.
TransformableUrls == {"mdpi.com/x"}

PlainUrls == {"example.org/x"}

AllUrls == DoiUrls \cup TransformableUrls \cup PlainUrls

\* Lines 115-166: the alternatives that the rules of the table give for a
\* URL, without the one that resolves doi.org links.
RuleUrls(url) == IF url \in TransformableUrls THEN <<"mdpi.com/x/pdf">> ELSE <<>>

\* get_transform_urls(url) is called; a URL that is no doi.org link is
\* answered by the table alone.
TransformUrlsEnter ==
    /\ call.done
    /\ \E url \in AllUrls :
        call' = [fn |-> "get_transform_urls", url |-> url, depth |-> 1,
                 out |-> RuleUrls(url), done |-> url \notin DoiUrls,
                 raised |-> FALSE]
    /\ UNCHANGED commandVars

\* Lines 169-179 for the doi.org link of the innermost call: requests.head
\* follows the redirects to `final`, or raises a RequestException; a final
\* URL other than the one asked is appended and get_transform_urls is
\* called on it, one frame deeper, without any count of the depth.
TransformUrlsResolve ==
    /\ call.fn = "get_transform_urls"
    /\ ~call.done
    /\ \E final \in AllUrls \cup {"RequestException"} :
        call' =
          IF final = "RequestException" \/ final = call.url
          THEN [call EXCEPT !.done = TRUE]
          ELSE IF call.depth + 1 > RecursionLimit
          THEN [call EXCEPT !.done = TRUE, !.raised = TRUE]
          ELSE [call EXCEPT !.url = final,
                            !.depth = @ + 1,
                            !.out = Append(@, final) \o RuleUrls(final),
                            !.done = final \notin DoiUrls]
    /\ UNCHANGED commandVars

NextTransformUrls == TransformUrlsEnter \/ TransformUrlsResolve

SpecTransformUrls == Init /\ [][NextTransformUrls]_vars

(* ------------------- runs that are left to run ------------------------ *)

\* Runs with every phase enabled, with and without --use-vpn.
TerminationFlags ==
    {f \in AllFlags :
        \A n \in FlagNames \ {"use_vpn"} : f[n] = AllPhasesOn[n]}

\* The first run over a dataset, which nothing interrupts: it goes on
\* until it returns or an exception ends it.
FirstRun ==
    /\ pc = "idle"
    /\ StartRun(TerminationFlags, {PipelinePapers}, {"dM"}, {DefaultScholarDelay})

NextTermination == FirstRun \/ Phases

SpecTermination == Init /\ [][NextTermination]_vars

\* Every adapter call, download and rotate() returns: a run that is not
\* killed goes on with its next step.
SpecTerminationLive == SpecTermination /\ WF_vars(Phases)


(* ---- download_pdf, update_entry and save_manifest in a phase loop ---- *)

\* The papers of the runs below.
PersistPapers == {1, 2}

\* `output_path = PDF_DIR / f"{paper_id}.pdf"`, and the file_path that
\* update_entry records for it; 0 stands for no file_path.
OutputPath(pid) == pid

NoPath == 0

PersistEntry(status, path) == [status |-> status, file_path |-> path]

\* The entry set to downloaded before download_pdf has written the file.
AfterAnswer_UpdateFirst(c, pid, a) ==
    IF a.res = "200" /\ IsPdf(a.body)
    THEN [c EXCEPT !.pos = "write", !.pid = pid, !.body = a.body,
                   !.mem[pid] = PersistEntry("downloaded", OutputPath(pid))]
    ELSE [c EXCEPT !.pos = "updated", !.pid = pid,
                   !.mem[pid] = PersistEntry("failed", NoPath)]

\* download.py 59-68 and download_papers.py 597-598: the answer that ends
\* the attempts of download_pdf. A body that passes is_pdf goes on to
\* write_bytes; anything else makes download_pdf return False, and the loop
\* sets the entry to failed.
AfterAnswer(c, pid, a) ==
    IF a.res = "200" /\ IsPdf(a.body)
    THEN [c EXCEPT !.pos = "write", !.pid = pid, !.body = a.body]
    ELSE [c EXCEPT !.pos = "updated", !.pid = pid,
                   !.mem[pid] = PersistEntry("failed", NoPath)]

\* load_manifest at the start of a run, with the reset of --retry-failed.
LoadPersisted(saved, retry) ==
    [p \in DOMAIN saved |->
        IF retry /\ saved[p].status = "failed"
        THEN [saved[p] EXCEPT !.status = "pending"]
        ELSE saved[p]]

\* The first run: no PDF on disk, every entry pending and saved.
PersistEnter ==
    /\ call.done
    /\ call.fn # "persist"
    /\ LET fresh == [p \in PersistPapers |-> PersistEntry("pending", NoPath)]
       IN  call' = [fn |-> "persist", done |-> FALSE, pos |-> "ready",
                    pid |-> 0, body |-> <<>>,
                    files |-> [p \in PersistPapers |-> NoFile],
                    mem |-> fresh, saved |-> fresh]
    /\ UNCHANGED commandVars

\* A loop takes its next candidate, an entry that is not downloaded, and
\* calls download_pdf for it.
PersistRequest ==
    /\ call.fn = "persist"
    /\ call.pos = "ready"
    /\ \E pid \in DOMAIN call.mem, a \in DlAnswers :
        /\ call.mem[pid].status # "downloaded"
        /\ call' = AfterAnswer(call, pid, a)
    /\ UNCHANGED commandVars

\* download.py 70-71: write_bytes, then `return True`. An OSError of
\* write_bytes is not caught and ends the run.
PersistWrite ==
    /\ call.fn = "persist"
    /\ call.pos = "write"
    /\ \E how \in {"ok", "raise_open", "raise_cut"},
          cut \in 0..(Len(call.body) - 1) :
        call' = [call EXCEPT
                   !.files[call.pid] = WriteBytes(@, call.body, how, cut),
                   !.pos = IF how = "ok" THEN "returned" ELSE "stopped",
                   !.mem = IF how = "ok" THEN @ ELSE <<>>]
    /\ UNCHANGED commandVars

\* download_papers.py 587-595: `if success: update_entry(..., status=
\* "downloaded", ..., file_path=...)`.
PersistUpdate ==
    /\ call.fn = "persist"
    /\ call.pos = "returned"
    /\ call' = [call EXCEPT
                  !.mem[call.pid] = PersistEntry("downloaded", OutputPath(call.pid)),
                  !.pos = "updated"]
    /\ UNCHANGED commandVars

\* The end of the iteration: save_manifest in the loops that save per paper
\* (line 600), nothing in the loops of the phase functions, whose manifest
\* is saved after the phase.
PersistSave ==
    /\ call.fn = "persist"
    /\ call.pos = "updated"
    /\ \E saves \in BOOLEAN :
        call' = [call EXCEPT !.saved = IF saves THEN call.mem ELSE @,
                             !.pos = "ready"]
    /\ UNCHANGED commandVars

\* The save after a phase and the end of the run.
PersistExit ==
    /\ call.fn = "persist"
    /\ call.pos = "ready"
    /\ call' = [call EXCEPT !.saved = call.mem, !.mem = <<>>, !.pos = "stopped"]
    /\ UNCHANGED commandVars

\* The process is killed; inside write_bytes the file is left cut short.
PersistCrash ==
    /\ call.fn = "persist"
    /\ call.pos # "stopped"
    /\ \E cut \in 0..Len(call.body) :
        call' = [call EXCEPT
                   !.files[call.pid] =
                       IF call.pos = "write" /\ cut < Len(call.body)
                       THEN WriteBytes(@, call.body, "raise_cut", cut)
                       ELSE @,
                   !.mem = <<>>, !.pos = "stopped"]
    /\ UNCHANGED commandVars

\* The next run loads the saved manifest.
PersistRestart ==
    /\ call.fn = "persist"
    /\ call.pos = "stopped"
    /\ \E retry \in BOOLEAN :
        call' = [call EXCEPT !.mem = LoadPersisted(call.saved, retry),
                             !.pos = "ready", !.pid = 0, !.body = <<>>]
    /\ UNCHANGED commandVars

NextPersist ==
    \/ PersistEnter \/ PersistRequest \/ PersistWrite \/ PersistUpdate
    \/ PersistSave \/ PersistExit \/ PersistCrash \/ PersistRestart

SpecPersist == Init /\ [][NextPersist]_vars


(* ------------- runs long enough to outlast the VPN's failures ---------- *)

\* The papers of the runs with a VPN: one more than the rotations that
\* make it fail permanently.
NumPermanentPapers == 4

PermanentFlags == {f \in RotationFlags : f.use_vpn}

\* The runs of SpecRotation with --use-vpn, over NumPermanentPapers papers.
NextPermanent ==
    \/ StartRun(PermanentFlags, {1..NumPermanentPapers}, {""}, {DefaultScholarDelay})
    \/ EnrichDois({""}, {""})
    \/ OpenAccessBegin
    \/ UnpaywallBegin
    \/ TransformBegin("p3", "p3_loop", "p4", "url_transform")
    \/ ScholarBegin \/ ScholarStep \/ ScholarEnd
    \/ RepoBegin \/ CoreStep \/ CoreEnd
    \/ EpmcStep({"none"}) \/ EpmcEnd
    \/ ArxivStep({"none"}) \/ ArxivEnd \/ RepoEnd
    \/ TransformBegin("p6", "p6_loop", "p7", "url_transform_2")
    \/ CrossrefBegin
    \/ ProxyBegin
    \/ ScihubBegin
    \/ Kill

SpecPermanent == Init /\ [][NextPermanent]_vars

(* ------------------------------ claims -------------------------------- *)

Reqs == {lastReq[i] : i \in 1..Len(lastReq)}

InLoop ==
    pc \in {"p1_loop", "p2_loop", "p3_loop", "p4_loop", "p5a_loop", "p5b_loop",
            "p5c_loop", "p6_loop", "p7_loop", "p8_loop", "p9_loop"}

\* C1: no network request of any kind (DOI lookup, adapter
\* lookup, PDF download) is issued for a paper whose status is 'downloaded'
\* when the request is issued.
C1_NoRequestForDownloaded ==
    \A r \in Reqs :
        r.kind \in {"doi_lookup", "lookup", "download"} => r.st # "downloaded"

Frozen(e, f) ==
    /\ f.status = e.status
    /\ f.source = e.source
    /\ f.url = e.url
    /\ f.file_path = e.file_path

\* C2: once an entry is 'downloaded', in memory or in the manifest file, no
\* step of that run or of a later run changes its status, source, url or
\* file_path.
C2_DownloadedAbsorbing ==
    [][/\ \A p \in DOMAIN manifest \cap DOMAIN manifest' :
            manifest[p].status = "downloaded" => Frozen(manifest[p], manifest'[p])
       /\ \A p \in DOMAIN disk :
            disk[p].status = "downloaded" =>
                /\ p \in DOMAIN disk'
                /\ Frozen(disk[p], disk'[p])
                /\ p \in DOMAIN manifest' => Frozen(disk[p], manifest'[p])]_vars

\* A run with both retry flags has reached its last phase with an entry
\* downloaded by the first phase.
C2_Witness ==
    /\ pc = "p9_loop"
    /\ flags.retry_failed /\ flags.retry_not_found
    /\ lastReq # <<>>
    /\ \E p \in DOMAIN manifest :
         manifest[p].status = "downloaded" /\ manifest[p].source = "open_access"

Exclusive(e) == (e.file_path # "") <=> (e.status = "downloaded")

\* C3: in memory and in the manifest file, an entry has a file_path if and
\* only if its status is 'downloaded'.
C3_FilePathIffDownloaded ==
    /\ \A p \in DOMAIN manifest : Exclusive(manifest[p])
    /\ \A p \in DOMAIN disk : Exclusive(disk[p])

\* One entry failed after a retry reset (its URL is from Scholar, its
\* status from a rate-limited Scholar attempt), the other is downloaded.
C3_Witness ==
    /\ \E p \in DOMAIN disk :
         /\ disk[p].status = "failed"
         /\ disk[p].url = "oa"
         /\ disk[p].source = "google_scholar"
    /\ \E p \in DOMAIN disk : disk[p].status = "downloaded"

\* C4, as stated: when the pipeline starts the attempt for the next paper
\* of a phase, every change made in memory is in the manifest file.
C4_SavedBeforeNextAttempt ==
    (InLoop /\ todo # <<>>) => manifest = disk

\* C5: no paper that the manifest file holds as 'downloaded' is downloaded
\* again or is a candidate of a phase, whatever run issued the download and
\* wherever the earlier runs were killed; and a run started after a kill
\* works on the manifest file as it was left, changed by the retry resets
\* only.
C5_ResumeSafe ==
    /\ [](/\ \A r \in Reqs : r.kind = "download" => r.dst # "downloaded"
          /\ \A i \in 1..Len(todo) : disk[todo[i]].status # "downloaded"
          /\ ~Stopped => \A p \in DOMAIN disk :
                disk[p].status = "downloaded" => manifest[p].status = "downloaded")
    /\ [][(pc = "killed" /\ pc' # "idle") =>
            /\ manifest' = disk'
            /\ \A p \in DOMAIN disk :
                 \/ disk'[p] = disk[p]
                 \/ /\ disk[p].status \in {"failed", "not_found"}
                    /\ disk'[p] = [disk[p] EXCEPT !.status = "pending"]]_vars

\* A run was killed with one paper persisted as downloaded and the other
\* one not.
C5_Witness ==
    /\ pc = "killed"
    /\ \E p \in DOMAIN disk : disk[p].status = "downloaded"
    /\ \E p \in DOMAIN disk : disk[p].status \in {"pending", "failed", "not_found"}

DoiKept(e, f) == e.doi # "" => f.doi = e.doi

\* C6: once the doi of an entry is non-empty, in memory or in the manifest
\* file, no step of any run clears or replaces it.
C6_DoiWriteOnce ==
    [][/\ \A p \in DOMAIN manifest \cap DOMAIN manifest' :
            DoiKept(manifest[p], manifest'[p])
       /\ \A p \in DOMAIN disk :
            /\ p \in DOMAIN disk'
            /\ DoiKept(disk[p], disk'[p])
            /\ p \in DOMAIN manifest' => DoiKept(disk[p], manifest'[p])]_vars

\* After the enrichment of a later run, one entry holds a DOI of the batch
\* API and the other one a DOI of the metadata.
C6_Witness ==
    /\ pc = "p1"
    /\ \E p \in DOMAIN manifest :
         manifest[p].doi = "dA" /\ manifest[p].status = "downloaded"
    /\ \E p \in DOMAIN manifest : manifest[p].doi = "dM"

\* C9, as stated: no exception leaves the attempt for a paper, so that no
\* attempt ends the run.
C9_NoExceptionLeavesAttempt ==
    pc # "error"

PhaseOrder ==
    <<"open_access", "unpaywall", "url_transform", "google_scholar", "repo_apis",
      "core", "europepmc", "arxiv", "url_transform_2", "crossref",
      "institutional_proxy", "scihub">>

Rank(name) == CHOOSE i \in 1..Len(PhaseOrder) : PhaseOrder[i] = name

Started == {phaseLog[i] : i \in 1..Len(phaseLog)}

NoModeFlag(f) == ~f.open_access_only /\ ~f.scholar_only /\ ~f.repos_only

\* C7: in a run without mode flags the phases start in the order Open
\* Access, Unpaywall, URL transforms, Google Scholar, CORE, EuropePMC, arXiv,
\* URL transforms again, Crossref, institutional proxy, Sci-Hub, each at
\* most once and none while the loop of the previous one has candidates
\* left; a run that reaches its end has started every default phase, the
\* proxy phase iff --use-proxy-institutional and Sci-Hub iff --use-scihub.
C7_PhasesInOrder ==
    /\ [](NoModeFlag(flags) =>
            /\ \A i, j \in 1..Len(phaseLog) :
                 i < j => Rank(phaseLog[i]) < Rank(phaseLog[j])
            /\ pc = "done" =>
                 /\ {"open_access", "unpaywall", "url_transform", "google_scholar",
                     "repo_apis", "url_transform_2", "crossref"} \subseteq Started
                 /\ "core" \in Started <=> "europepmc" \in Started
                 /\ "core" \in Started <=> "arxiv" \in Started
                 /\ "institutional_proxy" \in Started <=> flags.use_proxy_institutional
                 /\ "scihub" \in Started <=> flags.use_scihub)
    /\ [][(NoModeFlag(flags) /\ phaseLog' # phaseLog /\ phaseLog' # <<>>) =>
            /\ todo = <<>> \/ pc = "p5a_abort"
            /\ Len(phaseLog') > Len(phaseLog)
            /\ SubSeq(phaseLog', 1, Len(phaseLog)) = phaseLog]_vars

\* A run with both opt-in phases has reached its end after all twelve
\* phase starts.
C7_Witness ==
    /\ pc = "done"
    /\ NoModeFlag(flags)
    /\ Len(phaseLog) = Len(PhaseOrder)

\* C8: a request to Sci-Hub is issued only by a run with --use-scihub, and
\* a download through the institutional proxy only by a run with
\* --use-proxy-institutional and a configured proxy base URL.
C8_OptInOnly ==
    [][\A i \in 1..Len(lastReq') :
          /\ lastReq'[i].src = "scihub" => flags.use_scihub
          /\ lastReq'[i].src = "institutional_proxy" =>
                flags.use_proxy_institutional /\ flags.proxy_base]_vars

\* A run with neither flag has ended and left a paper with a DOI that is
\* not downloaded: a candidate of both opt-in phases.
C8_Witness ==
    /\ pc = "done"
    /\ ~flags.use_scihub /\ ~flags.use_proxy_institutional
    /\ \E p \in DOMAIN manifest :
         manifest[p].status \in {"failed", "not_found"} /\ manifest[p].doi # ""

\* C10, as stated: the CORE loop is left before its last candidate exactly
\* when the candidate just looked up is at least the fifth in a row that
\* returned the rate-limited signal and there is no VPN or the VPN has
\* failed permanently.
C10_CoreStopsExactlyAtFifth ==
    [][(pc = "p5a_loop" /\ pc' \in {"p5a_loop", "p5a_abort"}) =>
          /\ pc' = "p5a_abort" =>
                rlRun' >= CoreAbortStreak /\ ~VpnUsable(vpn')
          /\ (rlRun' >= CoreAbortStreak /\ ~VpnUsable(vpn)) =>
                pc' = "p5a_abort"]_vars

\* C11, as stated: once has_failed_permanently() is true of a VPNSwitcher
\* (max_rotation_failures consecutive rotate() calls have failed), it is true
\* after every later step, whatever rotate() calls follow and whatever
\* their connect attempts return.
C11_FailedPermanentlyLatches ==
    [][(vpn.present /\ vpn'.present /\ HasFailedPermanently(vpn)) =>
          HasFailedPermanently(vpn')]_vars

\* C12: should_rotate_proactively(n) answers true exactly when n > 0 and n
\* is a multiple of rotate_every_n, for every n >= 0 and every
\* rotate_every_n >= 1.
C12_ProactiveIffPositiveMultiple ==
    \A r \in Reqs :
        r.kind = "should_rotate_proactively" =>
            (r.res = "yes" <=>
                (r.pid > 0 /\ \E k \in 1..r.pid : r.pid = k * vpn.every))

\* The second multiple of a rotate_every_n above 1 was asked and answered
\* true.
C12_Witness ==
    \E r \in Reqs :
        /\ r.kind = "should_rotate_proactively"
        /\ vpn.every > 1
        /\ r.pid = 2 * vpn.every
        /\ r.res = "yes"

\* The positions of the events of kind in the sequence ev.
At(ev, kind) == {i \in 1..Len(ev) : ev[i].kind = kind}

\* C13: in an iteration of the Google Scholar or CORE loop the adapter is
\* called at most twice, always for the paper of the iteration; a
\* rate-limited first answer with a usable VPN is followed at once by one
\* rotate(), and by no rotate() otherwise; the adapter is called a second
\* time exactly when that rotate() succeeded; whatever the second answer,
\* no rotate() follows it.
C13_RetryOnceAfterRotation ==
    [][(pc \in {"p4_loop", "p5a_loop"} /\ Lookups(lastReq') # <<>>) =>
          LET ev == lastReq'
              L == At(ev, "lookup")
              first == CHOOSE i \in L : \A j \in L : i <= j
              R == {i \in At(ev, "rotate") : i > first}
              usable ==
                  /\ vpn.present
                  /\ IF first > 1
                     THEN ev[first - 1].res = "ok" \/ vpn.failures + 1 < MaxFailures
                     ELSE ~HasFailedPermanently(vpn)
          IN  /\ Cardinality(L) <= 2
              /\ \A i \in L : ev[i].pid = Head(todo)
              /\ (ev[first].res = "rl" /\ usable) => R = {first + 1}
              /\ (ev[first].res # "rl" \/ ~usable) => R = {}
              /\ Cardinality(L) = 2 <=> (R # {} /\ ev[first + 1].res = "ok")
              /\ Cardinality(L) = 2 => first + 2 \in L]_vars

\* A Google Scholar paper was rate-limited, the VPN was rotated, and the
\* second call of the adapter was rate-limited again.
C13_Witness ==
    /\ pc = "p4_loop"
    /\ Len(Lookups(lastReq)) = 2
    /\ Lookups(lastReq)[2].res = "rl"
    /\ At(lastReq, "rotate") # {}
    /\ VpnUsable(vpn)

\* C14, as stated: in the Google Scholar loop current_delay is never above
\* the steady-state delay, and an iteration without a successful rotation
\* raises a current_delay below the steady-state delay by one second.
C14_DelayRampsToSteadyState ==
    [][(pc = "p4_loop" /\ pc' = "p4_loop" /\ Lookups(lastReq') # <<>>) =>
          LET rotated == \E i \in At(lastReq', "rotate") : lastReq'[i].res = "ok"
          IN  /\ currentDelay' <= scholarDelay
              /\ (~rotated /\ currentDelay < scholarDelay) =>
                    currentDelay' = currentDelay + DelayIncrement
              /\ (~rotated /\ currentDelay = scholarDelay) =>
                    currentDelay' = scholarDelay]_vars

\* The events of kind in the log of the call, in order.
Logged(kind) == SelectSeq(call.log, LAMBDA e : e.kind = kind)

\* The backoff sleeps of the call since request number from.
BackoffsSince(from) ==
    LET at == {i \in 1..Len(call.log) : call.log[i].kind = "request"}
        start == CHOOSE i \in at : Cardinality({j \in at : j <= i}) = from
        tail == SubSeq(call.log, start, Len(call.log))
    IN  SelectSeq(tail, LAMBDA e : e.kind = "backoff")

\* C15: while the CORE API has answered every request for the current
\* query with 429, the adapter has made at most max_retries + 1 requests
\* for it and has slept 5 * backoff_factor^k before retry k (k from 0);
\* after request max_retries + 1 it has returned no URL and the
\* rate-limited signal, with the queries after it left untried; before
\* that it has not returned.
C15_BackoffThenRateLimited ==
    call.fn = "find_pdf_url" /\ Logged("request") # <<>> =>
        LET reqs == Logged("request")
            q == reqs[Len(reqs)].arg
            run == {i \in 1..Len(reqs) : reqs[i].arg = q}
            n == Cardinality(run)
            first == Len(reqs) - n + 1
            waits == BackoffsSince(first)
        IN  (\A i \in run : reqs[i].res = "429") =>
              /\ n <= call.maxRetries + 1
              /\ Len(waits) = Min(n, call.maxRetries)
              /\ \A k \in 1..Len(waits) :
                    waits[k].arg = BackoffBase * Pow(call.factor, k - 1)
              /\ n = call.maxRetries + 1 =>
                    /\ call.done /\ ~call.url /\ call.rl
                    /\ Head(call.queries) = q
              /\ n <= call.maxRetries => ~call.done

\* With factor 2 and max_retries 3 the DOI query was answered 429 four
\* times, the waits were 5, 10, 20, and the call returned rate-limited with
\* the title query still untried.
C15_Witness ==
    /\ call.fn = "find_pdf_url"
    /\ call.done /\ call.rl
    /\ call.factor = 2 /\ call.maxRetries = 3
    /\ call.queries = <<"doi", "title">>
    /\ Len(Logged("request")) = 4
    /\ [k \in 1..3 |-> Logged("backoff")[k].arg] = <<5, 10, 20>>

\* C16: download_pdf has made at most max_retries requests; every request
\* but the last ended with a transport error or an HTTP error status; the
\* k-th sleep (k from 0) lasts 2^k seconds and follows a failed request;
\* there is one sleep between two consecutive requests and none after the
\* last; and once request number max_retries has failed the call has
\* returned false.
C16_BoundedRetriesWithBackoff ==
    call.fn = "download_pdf" =>
        LET reqs == Logged("request")
            sleeps == Logged("sleep")
            n == Len(reqs)
            failed(e) == e.res \in {"http_error", "error"}
        IN  /\ n <= call.maxRetries
            /\ \A i \in 1..(n - 1) : failed(reqs[i])
            /\ \A k \in 1..Len(sleeps) : sleeps[k].arg = Pow(2, k - 1)
            /\ \A i \in 1..Len(call.log) :
                  call.log[i].kind = "sleep" =>
                      /\ i > 1
                      /\ call.log[i - 1].kind = "request"
                      /\ failed(call.log[i - 1])
                      /\ i < Len(call.log) => call.log[i + 1].kind = "request"
            /\ Len(sleeps) = IF call.done /\ n > 0 THEN n - 1 ELSE n
            /\ (n > 0 /\ n = call.maxRetries /\ failed(reqs[n])) =>
                  call.done /\ ~call.raised /\ ~call.ret

\* Four attempts out of four failed, with sleeps of 1, 2 and 4 seconds
\* between them, and the call returned false.
C16_Witness ==
    /\ call.fn = "download_pdf"
    /\ call.done /\ ~call.raised /\ ~call.ret
    /\ call.maxRetries = 4
    /\ Len(Logged("request")) = 4
    /\ [k \in 1..3 |-> Logged("sleep")[k].arg] = <<1, 2, 4>>

\* The first five bytes of the body are '%PDF-'.
HasPdfSignature(body) ==
    /\ Len(body) >= 5
    /\ body[1] = "%" /\ body[2] = "P" /\ body[3] = "D" /\ body[4] = "F"
    /\ body[5] = "-"

\* C17: download_pdf calls write_bytes only with the body of the response
\* just received and only when that body has the PDF signature; when it
\* has returned false it has written nothing and the destination is as it
\* was before the call; a destination that differs from before the call
\* holds bytes of a body with the signature.
C17_WriteOnlyValidated ==
    call.fn = "download_pdf" =>
        /\ \A i \in 1..Len(call.log) :
              call.log[i].kind = "write" =>
                  /\ i > 1
                  /\ call.log[i - 1].kind = "request"
                  /\ call.log[i - 1].res = "200"
                  /\ call.log[i - 1].arg = call.log[i].arg
                  /\ HasPdfSignature(call.log[i].arg)
        /\ (call.done /\ ~call.raised /\ ~call.ret) =>
              Logged("write") = <<>> /\ call.file = call.file0
        /\ call.file # call.file0 =>
              /\ Len(Logged("write")) = 1
              /\ \E k \in 0..Len(Logged("write")[1].arg) :
                    call.file.content = SubSeq(Logged("write")[1].arg, 1, k)
        /\ (call.done /\ call.ret) =>
              /\ Len(Logged("write")) = 1
              /\ call.file.content = Logged("write")[1].arg

\* After a failed attempt the server sent a body that starts with '%PDF'
\* but not with '%PDF-': the call returned false and the file of an earlier
\* run is untouched.
C17_Witness ==
    /\ call.fn = "download_pdf"
    /\ call.done /\ ~call.raised /\ ~call.ret
    /\ call.file0 = OldFile /\ call.file = OldFile
    /\ Len(Logged("request")) = 2
    /\ Logged("request")[2].res = "200"
    /\ Logged("request")[2].arg = SubSeq(PdfMagic, 1, 4)

VpnKinds == {"is_available", "get_status", "rotate"}

\* The calls of VPNSwitcher methods among the events ev.
VpnCalls(ev) == SelectSeq(ev, LAMBDA e : e.kind \in VpnKinds)

\* C18: a command starts (the only step from a stopped process).  It exits
\* with the VPN error exactly when is_available() was false or the initial
\* rotate(), made because the VPN was not connected, failed; that happens
\* only with --use-vpn, and the exit leaves the manifest file as it was,
\* with no manifest loaded and nothing done but VPNSwitcher calls.  A
\* command without --use-vpn calls no VPNSwitcher method, at its start or
\* in any later step, and has no VPNSwitcher.
C18_VpnFailsFastOrIsAbsent ==
    [][/\ Stopped =>
            LET ops == lastReq'
                unavailable ==
                    \E i \in 1..Len(ops) :
                        ops[i].kind = "is_available" /\ ops[i].res = "no"
                noConnection ==
                    \E i \in 2..Len(ops) :
                        /\ ops[i].kind = "rotate" /\ ops[i].res = "fail"
                        /\ ops[i - 1].kind = "get_status"
                        /\ ops[i - 1].res = "disconnected"
            IN  /\ (flags'.use_vpn /\ (unavailable \/ noConnection))
                       <=> pc' = "vpn_error"
                /\ pc' = "vpn_error" =>
                       /\ disk' = disk
                       /\ manifest' = NoManifest
                       /\ papers' = {}
                       /\ VpnCalls(ops) = ops
                /\ ~flags'.use_vpn => VpnCalls(ops) = <<>> /\ ~vpn'.present
       /\ (~Stopped /\ ~flags.use_vpn) =>
            /\ VpnCalls(lastReq') = <<>>
            /\ ~vpn.present /\ ~vpn'.present]_vars

\* A command with --use-vpn found the VPN disconnected, its initial
\* rotate() failed, and it exited leaving the manifest file of an earlier
\* run.
C18_Witness ==
    /\ pc = "vpn_error"
    /\ flags.use_vpn
    /\ disk # NoManifest
    /\ Len(lastReq) = 3
    /\ lastReq[3].kind = "rotate" /\ lastReq[3].res = "fail"

\* C19: in a run without an Unpaywall email the Unpaywall phase, and in a
\* run with --use-proxy-institutional but without a proxy base URL the
\* proxy phase, makes no request and leaves the manifest as it is, and the
\* run goes on to the next phase; no request is ever sent to Unpaywall
\* without an email; and a run that reaches its end has started every
\* default phase and Sci-Hub iff --use-scihub, whatever configuration is
\* missing.
C19_MissingConfigSkipsPhaseOnly ==
    /\ [][/\ (pc \in {"p2", "p2_loop"} /\ ~flags.email /\ pc' # "killed") =>
               /\ lastReq' = <<>>
               /\ manifest' = manifest
               /\ pc' = IF pc = "p2" /\ UnpaywallEnabled(flags) THEN "p2_loop"
                        ELSE "p3"
          /\ (pc \in {"p8", "p8_loop"} /\ ~flags.proxy_base /\ pc' # "killed") =>
               /\ lastReq' = <<>>
               /\ manifest' = manifest
               /\ pc' = IF pc = "p8" /\ ProxyEnabled(flags) THEN "p8_loop"
                        ELSE "p9"
          /\ \A i \in 1..Len(lastReq') :
               lastReq'[i].src = "unpaywall" => flags.email]_vars
    /\ []((pc = "done" /\ NoModeFlag(flags)) =>
            /\ {"open_access", "unpaywall", "url_transform", "google_scholar",
                "repo_apis", "url_transform_2", "crossref"} \subseteq Started
            /\ "scihub" \in Started <=> flags.use_scihub)

\* A run with neither the email nor the proxy base URL has reached its
\* end, and Sci-Hub, the phase after the proxy phase, downloaded a paper
\* that has a DOI and was pending when the Unpaywall phase was skipped.
C19_Witness ==
    /\ pc = "done"
    /\ ~flags.email
    /\ flags.use_proxy_institutional /\ ~flags.proxy_base
    /\ \E p \in DOMAIN manifest :
         manifest[p].status = "downloaded" /\ manifest[p].source = "scihub"
    /\ {"unpaywall", "institutional_proxy"} \subseteq Started

ReposPositions ==
    {"p5", "p5a_loop", "p5a_abort", "p5b_loop", "p5c_loop", "p5_end", "done",
     "vpn_error"}

\* C20: a run with --repos-only is never at a position outside phase 5 and
\* starts no phase but the repository phase (CORE, EuropePMC, arXiv); every
\* request it makes goes to one of the three repositories; it ends from
\* the end of phase 5 with the manifest saved, and an exception that ends
\* it leaves nothing unsaved.
C20_ReposOnlyRunsPhaseFiveOnly ==
    /\ [](flags.repos_only =>
            /\ pc \in ReposPositions
            /\ Started \subseteq {"repo_apis", "core", "europepmc", "arxiv"})
    /\ [][flags.repos_only =>
            /\ \A i \in 1..Len(lastReq') :
                 \/ lastReq'[i].kind \in VpnKinds
                 \/ /\ lastReq'[i].kind \in {"lookup", "download"}
                    /\ lastReq'[i].src \in {"core", "europepmc", "arxiv"}
            /\ pc' = "done" => pc = "p5_end" /\ disk' = manifest'
            /\ pc' = "error" => disk' = manifest]_vars

\* A run with --repos-only, --use-scihub, --use-proxy-institutional and
\* without --skip-unpaywall has ended: a repository gave one paper, and the
\* other, a candidate of Unpaywall's later phases, Crossref, the proxy and
\* Sci-Hub, is still not downloaded.
C20_Witness ==
    /\ pc = "done"
    /\ flags.repos_only /\ flags.use_scihub /\ flags.use_proxy_institutional
    /\ ~flags.skip_unpaywall /\ ~flags.open_access_only /\ ~flags.scholar_only
    /\ disk = manifest
    /\ \E p, q \in DOMAIN manifest :
         /\ manifest[p].status = "downloaded"
         /\ manifest[p].source \in {"core", "europepmc", "arxiv"}
         /\ manifest[q].status \in {"failed", "not_found"}
         /\ manifest[q].doi # ""

\* The entry e of the manifest file is reset by a command with flags f.
Retried(e, f) ==
    \/ f.retry_failed /\ e.status = "failed"
    \/ f.retry_not_found /\ e.status = "not_found"

\* C21: when a command starts a run, every entry of the manifest file that
\* its retry flags select is pending in the manifest the phases start with
\* and differs from the file's entry in the status only, and every other
\* entry of the file is as it was; a paper new to the manifest is pending;
\* the Google Scholar phase takes every pending entry as a candidate; and
\* no step of a run moves an entry from failed or not_found to pending.
C21_RetryResetsStatusOnly ==
    [][/\ (Stopped /\ pc' \notin {"vpn_error", "idle"}) =>
            /\ \A p \in DOMAIN disk :
                 /\ p \in DOMAIN manifest'
                 /\ manifest'[p] = IF Retried(disk[p], flags')
                                   THEN [disk[p] EXCEPT !.status = "pending"]
                                   ELSE disk[p]
            /\ \A p \in DOMAIN manifest' \ DOMAIN disk :
                 manifest'[p].status = "pending"
            /\ disk' = manifest'
       /\ (pc = "p4" /\ pc' = "p4_loop") =>
            GetByStatus(manifest, "pending") \subseteq Range(todo')
       /\ ~Stopped =>
            \A p \in DOMAIN manifest \cap DOMAIN manifest' :
                manifest[p].status \in {"failed", "not_found"} =>
                    manifest'[p].status # "pending"]_vars

\* A run with --retry-failed is in the Google Scholar loop, and a candidate
\* of the loop is a pending entry that still carries the source and the URL
\* of the attempt that failed in an earlier run.
C21_Witness ==
    /\ pc = "p4_loop"
    /\ flags.retry_failed
    /\ \E i \in 1..Len(todo) :
         /\ manifest[todo[i]].status = "pending"
         /\ manifest[todo[i]].source # ""
         /\ manifest[todo[i]].url # ""

\* The entries of the manifest whose status is in statuses.
WithStatus(statuses) == {p \in DOMAIN manifest : manifest[p].status \in statuses}

WithDoi == {p \in DOMAIN manifest : manifest[p].doi # ""}

WithUrl == {p \in DOMAIN manifest : manifest[p].url # ""}

Unsuccessful == WithStatus({"failed", "not_found"})

\* The loop at position loop starts: the step that sets its candidates.
Starts(here, loop) == pc = here /\ pc' = loop

RepoPositions == {"p5", "p5a_loop", "p5a_abort", "p5b_loop", "p5c_loop", "p5_end"}

LastPositions == {"p6", "p6_loop", "p7", "p7_loop", "p8", "p8_loop", "p9", "p9_loop"}

\* Entry e was not found by Google Scholar and has neither a DOI nor a URL.
Bare(e) ==
    /\ e.status = "not_found" /\ e.source = "google_scholar"
    /\ e.doi = "" /\ e.url = ""

\* The step makes entry p downloaded.
Promoted(p) ==
    /\ p \in DOMAIN manifest /\ p \in DOMAIN manifest'
    /\ manifest'[p].status = "downloaded"

\* C23, as stated: no step of a phase after Google Scholar makes a
\* not_found entry without DOI and URL downloaded.
C23_BareNotFoundNeverPromoted ==
    [][\A p \in DOMAIN manifest :
          (pc \in RepoPositions \cup LastPositions /\ Bare(manifest[p])) =>
              ~Promoted(p)]_vars

\* C23, amended: such an entry is made downloaded by no step of the second
\* URL transforms, Crossref, the proxy or Sci-Hub; a step that makes it
\* downloaded is a step of the CORE, EuropePMC or arXiv loop, which look the
\* paper up by its title.
C23_BarePromotedByTitleOnly ==
    [][\A p \in DOMAIN manifest :
          (pc \in RepoPositions \cup LastPositions /\ Bare(manifest[p])
             /\ Promoted(p)) =>
              /\ pc \in {"p5a_loop", "p5b_loop", "p5c_loop"}
              /\ manifest[p].title # ""
              /\ manifest'[p].source \in {"core", "europepmc", "arxiv"}]_vars

\* A run with every phase on has ended, Sci-Hub included, and an entry
\* without DOI and URL is still as Google Scholar left it.
C23_Witness ==
    /\ pc = "done"
    /\ "scihub" \in Started /\ "institutional_proxy" \in Started
    /\ \E p \in DOMAIN manifest : Bare(manifest[p])


\* C24: the exclusive mode flags restrict the run to the source they name,
\* whatever other flags are combined with them: in a run with --scholar-only
\* every adapter lookup is made to Google Scholar, and in a run with
\* --open-access-only every download attempted is that of a direct
\* open-access URL of the dataset.
C24_ModeFlagsRestrictSources ==
    \A r \in Reqs :
        /\ (flags.scholar_only /\ r.kind = "lookup") => r.src = "google_scholar"
        /\ (flags.open_access_only /\ r.kind = "download") => r.src = "open_access"

\* The same with every flag that can be combined left out: only the
\* Unpaywall lookup of a --scholar-only run remains.
C24_ScholarOnlyAsksUnpaywall ==
    \A r \in Reqs :
        (flags.scholar_only /\ ~flags.use_scihub /\ ~flags.use_proxy_institutional
            /\ ~flags.skip_unpaywall /\ r.kind = "lookup")
        => r.src = "google_scholar"


\* C25: manifest initialisation is idempotent: load, init(papers, manifest)
\* and save over a manifest file that holds entries leaves every existing
\* entry as it was, adds exactly one pending entry for each dataset paper
\* that was not there, and a second init with the same papers changes
\* nothing.
C25_InitManifestIdempotent ==
    call.fn = "init_manifest" =>
        /\ disk = call.after
        /\ DOMAIN call.after = DOMAIN call.before \cup call.ids
        /\ \A p \in DOMAIN call.before : call.after[p] = call.before[p]
        /\ \A p \in call.ids \ DOMAIN call.before :
              /\ call.after[p].status = "pending"
              /\ call.after[p].source = ""
              /\ call.after[p].url = ""
              /\ call.after[p].file_path = ""
        /\ call.runs = 2 => /\ call.after = call.first
                            /\ call.after = call.before

\* A second init over a file that held a downloaded paper and lacked a
\* dataset paper the first init added.
C25_Witness ==
    /\ call.fn = "init_manifest"
    /\ call.runs = 2
    /\ \E p \in DOMAIN call.after : call.after[p].status = "downloaded"
    /\ \E p \in call.ids : p \in DOMAIN call.after /\ call.after[p].source = ""
                           /\ call.after[p].doi = "dM"


Downloads(reqs) == SelectSeq(reqs, LAMBDA r : r.kind = "download")

\* C26: an iteration of the Google Scholar loop that runs to its end leaves
\* its paper, a pending one, with the one status that the last answer of
\* the adapter determines: rate-limited, failed without any download and
\* with the URL it had; no URL, not_found without any download; a URL that
\* downloads, downloaded with source google_scholar, the URL and the file
\* path; a URL that does not download, failed with the URL recorded.  The
\* manifest is saved and no other entry changes.
C26_ScholarStatusByFinalAnswer ==
    [][(pc = "p4_loop" /\ todo # <<>> /\ pc' = "p4_loop") =>
          LET p == Head(todo)
              L == Lookups(lastReq')
              D == Downloads(lastReq')
              final == L[Len(L)].res
              e == manifest[p]
              f == manifest'[p]
          IN  /\ e.status = "pending"
              /\ L # <<>>
              /\ f.source = "google_scholar"
              /\ f.doi = e.doi /\ f.title = e.title
              /\ final = "rl" =>
                    /\ f.status = "failed" /\ D = <<>>
                    /\ f.url = e.url /\ f.file_path = e.file_path
              /\ final = "none" =>
                    /\ f.status = "not_found" /\ D = <<>>
                    /\ f.url = e.url /\ f.file_path = e.file_path
              /\ final = "url" =>
                    /\ Len(D) = 1 /\ D[1].pid = p /\ D[1].src = "google_scholar"
                    /\ D[1].res = "ok" =>
                          /\ f.status = "downloaded" /\ f.url = "pdf"
                          /\ f.file_path = PdfPath
                    /\ D[1].res # "ok" =>
                          /\ f.status = "failed" /\ f.url = "pdf"
                          /\ f.file_path = e.file_path
              /\ \A q \in DOMAIN manifest \ {p} : manifest'[q] = manifest[q]
              /\ disk' = manifest']_vars

\* A paper rate-limited, found after a rotation of the VPN, whose URL did
\* not download: failed, with the URL.
C26_Witness ==
    /\ pc = "p4_loop"
    /\ Len(Lookups(lastReq)) = 2
    /\ Lookups(lastReq)[1].res = "rl"
    /\ Len(Downloads(lastReq)) = 1
    /\ Downloads(lastReq)[1].res = "fail"
    /\ manifest[Downloads(lastReq)[1].pid].status = "failed"
    /\ manifest[Downloads(lastReq)[1].pid].url = "pdf"


\* C27: the Unpaywall phase changes a manifest entry only by moving a
\* pending entry to downloaded, after a download of the URL Unpaywall gave
\* succeeded; an iteration in which Unpaywall returns no PDF, or in which
\* the download of its PDF fails, leaves the manifest as it was, its paper
\* pending.
C27_UnpaywallOnlyPromotesPending ==
    [][(pc \in {"p2", "p2_loop"}) =>
          LET done == pc = "p2_loop" /\ pc' = "p2_loop" /\ todo # <<>>
              last == lastReq'[Len(lastReq')]
          IN  /\ \A p \in DOMAIN manifest \cap DOMAIN manifest' :
                    manifest'[p] # manifest[p] =>
                        /\ done
                        /\ p = Head(todo)
                        /\ manifest[p].status = "pending"
                        /\ manifest'[p] = [manifest[p] EXCEPT !.status = "downloaded",
                                                              !.source = "unpaywall",
                                                              !.url = "pdf",
                                                              !.file_path = PdfPath]
                        /\ Len(lastReq') = 2
                        /\ last.kind = "download"
                        /\ last.res = "ok"
              /\ (done /\ last.res \in {"none", "fail"}) =>
                    (manifest' = manifest /\ manifest[Head(todo)].status = "pending")]_vars

\* Unpaywall gave a URL for a paper, the download failed, and the paper is
\* still pending.
C27_Witness ==
    /\ pc = "p2_loop"
    /\ Len(lastReq) = 2
    /\ lastReq[1].src = "unpaywall"
    /\ lastReq[2].res = "fail"
    /\ manifest[lastReq[2].pid].status = "pending"

\* C28: in the URL-transform phase the alternatives of a failed paper are
\* tried in the order of the list; no alternative is tried after one whose
\* download succeeded, and then the entry is downloaded with source
\* url_transform and that alternative as its url; when no alternative
\* downloads, the entry is as it was, failed with its original url.  No
\* other entry changes.
C28_TransformsInOrderUntilSuccess ==
    [][(pc \in {"p3_loop", "p6_loop"} /\ todo # <<>> /\ pc' = pc) =>
          LET p == Head(todo)
              ev == lastReq'
              n == Len(ev)
              e == manifest[p]
          IN  /\ n >= 1
              /\ e.status = "failed" /\ e.url # ""
              /\ \A i \in 1..n :
                    /\ ev[i].kind = "download" /\ ev[i].pid = p
                    /\ ev[i].alt = AltUrls[i]
                    /\ i < n => ev[i].res = "fail"
              /\ ev[n].res = "ok" =>
                    manifest'[p] = [e EXCEPT !.status = "downloaded",
                                             !.source = "url_transform",
                                             !.url = ev[n].alt,
                                             !.file_path = PdfPath]
              /\ ev[n].res # "ok" => manifest'[p] = e
              /\ \A q \in DOMAIN manifest \ {p} : manifest'[q] = manifest[q]]_vars

\* The first alternative of a paper failed and the second downloaded.
C28_Witness ==
    /\ pc \in {"p3_loop", "p6_loop"}
    /\ Len(lastReq) = 2
    /\ lastReq[1].res = "fail"
    /\ lastReq[2].res = "ok"
    /\ manifest[lastReq[2].pid].status = "downloaded"
    /\ manifest[lastReq[2].pid].url = AltUrls[2]


\* The first request of a candidate after the first candidate.
FirstRequestOfNext(log, k) ==
    /\ log[k].kind \in {"lookup", "download"}
    /\ log[k].arg > 1
    /\ \A j \in 1..(k - 1) : log[j].arg # log[k].arg

\* C29: in every phase each iteration ends with a courtesy sleep before the
\* first request of the next candidate, whatever the outcome of the
\* attempt: the event before the first request of every candidate but the
\* first is a sleep.
C29_SleepBeforeNextCandidate ==
    call.fn \in {"run_url_transform_phase", "run_repo_api_phase"} =>
        \A k \in 1..Len(call.log) :
            FirstRequestOfNext(call.log, k) => call.log[k - 1].kind = "sleep"

\* The same for the sleep of the phase itself, time.sleep(dl_delay), in the
\* CORE loop alone: it is skipped when the adapter returns no URL.
C29_CoreSleepsDlDelay ==
    call.fn = "run_repo_api_phase" =>
        \A k \in 1..Len(call.log) :
            FirstRequestOfNext(call.log, k) => call.log[k - 1].res = "dl_delay"


\* C30: rotate() never refuses because of the cooldown: called sooner than
\* min_rotation_interval after the last successful rotation, it sleeps for
\* the remaining time and goes on to connect, so that the connects of any
\* two successful rotations are at least min_rotation_interval apart; a
\* rotation that no successful rotation precedes waits for no cooldown.
C30_CooldownBlocksNeverRefuses ==
    call.fn = "VPNSwitcher" =>
        LET log == call.log
        IN  /\ \A i, j \in 1..Len(log) :
                  (i < j /\ log[i].ok /\ log[j].ok) =>
                      log[j].at - log[i].at >= MinRotationInterval
            /\ \A j \in 1..Len(log) :
                  /\ log[j].at >= log[j].start + log[j].wait
                  /\ (\A i \in 1..(j - 1) : ~log[i].ok) => log[j].wait = 0
                  /\ (log[j].last > 0 /\ log[j].start - log[j].last < MinRotationInterval)
                        => log[j].start + log[j].wait = log[j].last + MinRotationInterval
                  /\ (log[j].last > 0 /\ log[j].start - log[j].last >= MinRotationInterval)
                        => log[j].wait = 0

\* A failed first rotation, a successful one, and a third, successful too,
\* that was called during the cooldown and slept until its end.
C30_Witness ==
    /\ call.fn = "VPNSwitcher"
    /\ Len(call.log) = 3
    /\ ~call.log[1].ok /\ call.log[2].ok /\ call.log[3].ok
    /\ call.log[2].wait = 0
    /\ call.log[3].wait > 0


\* C31: rotate() returns True exactly when _connect succeeded, whatever
\* _disconnect returned and whatever the verification of the address found;
\* on success it sets _consecutive_failures to 0; on a failed connect it
\* adds exactly 1 to it, returns False, and leaves _last_rotation_time and
\* _recent_locations as they were.
C31_RotateReturnsConnectResult ==
    [][(call.fn = "rotate" /\ call'.fn = "rotate") =>
          LET r == call'.ret
          IN  /\ r.value = r.ok
              /\ r.ok => /\ call'.failures = 0
                         /\ call'.recent = Append(call.recent, r.loc)
              /\ ~r.ok => /\ call'.failures = call.failures + 1
                          /\ call'.last = call.last
                          /\ call'.recent = call.recent]_vars

\* A rotation after two failed ones: the disconnect failed, the connect
\* succeeded, and the address was found unchanged.
C31_Witness ==
    /\ call.fn = "rotate"
    /\ call.now = 3
    /\ call.failures = 0
    /\ call.ret.value /\ call.ret.ok /\ ~call.ret.disc
    /\ call.ret.ver = "unchanged"
    /\ Len(call.recent) = 1


\* C32: with the smart strategy rotate() never picks a location that is
\* among the last five that were connected, unless every location of the
\* list is among them, and then it picks from the whole list; with more
\* than five distinct locations in the list, a location that was connected
\* is therefore not connected again by any of the next five successful
\* rotations.
C32_SmartAvoidsRecent ==
    /\ [][(call.fn = "rotate" /\ call'.fn = "rotate") =>
            LET last5 == Range(LastRecent(call.recent))
                picked == call'.ret.loc
            IN  /\ picked \in Range(call.pool)
                /\ picked \in last5 => Range(call.pool) \subseteq last5]_vars
    /\ [](call.fn = "rotate" /\ Cardinality(Range(call.pool)) > RecentWindow =>
            \A i, j \in 1..Len(call.recent) :
                (i < j /\ j - i <= RecentWindow) => call.recent[i] # call.recent[j])

\* With six locations, the first one connected is connected again by the
\* sixth successful rotation after it, the first that may pick it.
C32_Witness ==
    /\ call.fn = "rotate"
    /\ Len(call.pool) = 6
    /\ Len(call.recent) = 7
    /\ call.recent[7] = call.recent[1]
    /\ call.failures = 0
    /\ call.now = 8


\* C33: get_transform_urls ends by returning its list for every URL and
\* every behaviour of the redirects: the recursion on a resolved doi.org
\* URL stops at a depth limit of its own, also when each resolved URL is
\* again a doi.org URL that resolves to a different one, and never runs
\* into the recursion limit of the interpreter.
C33_RecursionBounded ==
    call.fn = "get_transform_urls" => ~call.raised

\* The recursion as the spec expects it: a resolved URL is a publisher URL,
\* and the recursion is one call deep.
C33_OneLevel ==
    call.fn = "get_transform_urls" => call.depth <= 2


LoopPositions ==
    {"p1_loop", "p2_loop", "p3_loop", "p4_loop", "p5a_loop", "p5b_loop",
     "p5c_loop", "p6_loop", "p7_loop", "p8_loop", "p9_loop"}

\* C34: provided every adapter call, download and rotate() returns, every
\* run of the command comes to its end; an iteration of the loop of a phase
\* takes the first of the candidates listed when the phase or sub-phase
\* started and leaves the others, so that no candidate is visited twice,
\* and makes at most two calls of the adapter, two of rotate() and one
\* download, or one download for each alternative URL.
C34_RunTerminates ==
    /\ (~Stopped) ~> Stopped
    /\ [][(pc \in LoopPositions /\ todo # <<>> /\ ~Stopped')
            => /\ todo' = Tail(todo)
               /\ \A q \in Range(todo') : q # Head(todo)
               /\ Len(Lookups(lastReq')) <= 2
               /\ Cardinality(At(lastReq', "rotate")) <= 2
               /\ Len(Downloads(lastReq')) <= IF pc \in {"p3_loop", "p6_loop"}
                                               THEN MaxAlts ELSE 1]_vars

\* A run with the VPN that went through every phase to its end and made a
\* request in the last one.
C34_Witness ==
    /\ pc = "done"
    /\ flags.use_vpn
    /\ "scihub" \in Started
    /\ "core" \in Started
    /\ \E p \in DOMAIN manifest : manifest[p].status # "downloaded"


AfterScholar == RepoPositions \cup LastPositions \cup {"done"}

\* C35: in a run in which the Google Scholar phase ran, no entry of the
\* manifest is pending once that phase is over: every later phase sees
\* failed, not_found and downloaded entries only.
C35_NoPendingAfterScholar ==
    ("google_scholar" \in Started /\ pc \in AfterScholar) =>
        /\ GetPending(manifest) = {}
        /\ \A p \in DOMAIN manifest :
              manifest[p].status \in {"failed", "not_found", "downloaded"}

\* The Google Scholar phase is over and left one paper failed after a rate
\* limit and one not found.
C35_Witness ==
    /\ pc = "p5"
    /\ "google_scholar" \in Started
    /\ \E p, q \in DOMAIN manifest :
          /\ manifest[p].status = "failed" /\ manifest[p].source = "google_scholar"
          /\ manifest[p].url = ""
          /\ manifest[q].status = "not_found"


StatusMoves ==
    {<<"pending", "downloaded">>, <<"pending", "failed">>,
     <<"pending", "not_found">>, <<"failed", "downloaded">>,
     <<"not_found", "downloaded">>}

\* C36: after the start of a run (load, init and the optional retry reset),
\* a step of the run changes an entry's status only from pending to
\* downloaded, failed or not_found, or from failed or not_found to
\* downloaded; failed and not_found are written by the Open Access and
\* Scholar loops only.
C36_StatusMovesForward ==
    [][(~Stopped) =>
         \A p \in DOMAIN manifest \cap DOMAIN manifest' :
            manifest'[p].status # manifest[p].status =>
               /\ <<manifest[p].status, manifest'[p].status>> \in StatusMoves
               /\ manifest'[p].status \in {"failed", "not_found"} =>
                     pc \in {"p1_loop", "p4_loop"}]_vars

\* The repository phase is over: it downloaded a paper from CORE, which it
\* took as failed or not_found, and a paper that the Scholar loop moved
\* from pending to failed is still failed.
C36_Witness ==
    /\ pc = "p6"
    /\ \E p, q \in DOMAIN manifest :
          /\ manifest[p].status = "downloaded" /\ manifest[p].source = "core"
          /\ manifest[q].status = "failed"
          /\ manifest[q].source = "google_scholar"


ValidPdfAt(c, pid) ==
    /\ c.files[pid].exists
    /\ IsPdf(c.files[pid].content)

\* C37: the PDF is written before the entry is set to downloaded in memory,
\* and the entry is set before the manifest is saved: at every instant, also
\* after a crash, an entry that is downloaded in memory or in the saved
\* manifest records the path of its PDF, and a validated PDF is there.
C37_DownloadedHasPdf ==
    call.fn = "persist" =>
        /\ \A p \in DOMAIN call.saved :
              call.saved[p].status = "downloaded" =>
                 /\ call.saved[p].file_path = OutputPath(p)
                 /\ ValidPdfAt(call, p)
        /\ \A p \in DOMAIN call.mem :
              call.mem[p].status = "downloaded" =>
                 /\ call.mem[p].file_path = OutputPath(p)
                 /\ ValidPdfAt(call, p)

\* After a crash the saved manifest has one paper downloaded, and the file
\* of the other paper, not downloaded in it, was cut short by the crash.
C37_Witness ==
    /\ call.fn = "persist"
    /\ call.pos = "stopped"
    /\ \E p, q \in DOMAIN call.saved :
          /\ call.saved[p].status = "downloaded"
          /\ call.saved[q].status # "downloaded"
          /\ call.files[q].exists
          /\ ~IsPdf(call.files[q].content)


RECURSIVE FailuresBefore(_, _, _)
\* The consecutive-failure counter before event i of ev, from its value f
\* before the first event.
FailuresBefore(f, ev, i) ==
    IF i <= 1 THEN f
    ELSE LET g == FailuresBefore(f, ev, i - 1)
             e == ev[i - 1]
         IN  IF e.kind # "rotate" THEN g
             ELSE IF e.res = "ok" THEN 0 ELSE g + 1

\* C38: in a run, once has_failed_permanently() is true the Scholar and
\* CORE loops call rotate() no more, proactively or reactively, and the
\* consecutive-failure counter keeps the value it reached.
C38_NoRotateAfterPermanentFailure ==
    [][(~Stopped /\ vpn.present /\ vpn'.present) =>
          /\ \A i \in At(lastReq', "rotate") :
                FailuresBefore(vpn.failures, lastReq', i) < MaxFailures
          /\ HasFailedPermanently(vpn) =>
                /\ At(lastReq', "rotate") = {}
                /\ vpn'.failures = vpn.failures]_vars

\* The VPN has failed permanently in the Scholar phase, and a CORE lookup
\* was rate-limited with no rotate() after it.
C38_Witness ==
    /\ pc = "p5a_loop"
    /\ HasFailedPermanently(vpn)
    /\ \E r \in Reqs : r.kind = "lookup" /\ r.src = "core" /\ r.res = "rl"
    /\ At(lastReq, "rotate") = {}


====
